---- MODULE Spec2Model ----
(***************************************************************************)
(* The LES server pool (les/serverpool.go) on top of the node state        *)
(* machine, the dial iterator sources and the value tracker.               *)
(*                                                                         *)
(* Time is counted in units of minRedialWait (10s), which is also the dial *)
(* timeout; service values are whole units of lpc value.  The float64      *)
(* waitFactor is carried in whole units (the quotient a/b is rounded down, *)
(* it is clamped to >= 1 right after).                                     *)
(***************************************************************************)
EXTENDS Integers, Sequences, FiniteSets, TLC

\* ------------------------------------------------------------ constants
dialCost == 10000
nodeWeightMul == 1000000
nodeWeightThreshold == 100
redialWaitStep == 2
minRedialWait == 1
dialTimeout == 1
minTimeout == 500
timeoutChangeThreshold == 10
\* the largest time.Duration (int64 nanoseconds), in units of 10s
MaxDuration == 922337203

\* --------------------------------------------------------------- bounds
MaxClock == 3
MaxValue == 1
MaxDialCost == 3
\* the statistics expirer halves a value every ExpPeriod units of time
ExpPeriod == 4
MaxRuns == 1

Nodes == {"n1"}
\* the soft timeouts getTimeout can come to (ms), more than the threshold apart
Timeouts == {minTimeout, 2 * minTimeout}

sfHasValue == "hasValue"
sfSelected == "selected"
sfDialed == "dialed"
sfConnected == "connected"
sfRedialWait == "redialWait"
sfAlwaysConnect == "alwaysConnect"

Flags == {sfHasValue, sfSelected, sfDialed, sfConnected, sfRedialWait, sfAlwaysConnect}
PersistentFlags == {sfHasValue}
\* an exclude mask that leaves selected out
disableSelectionWithoutSelected == {sfDialed, sfConnected, sfRedialWait}

disableSelection == {sfSelected, sfDialed, sfConnected, sfRedialWait}

VARIABLES
    state,      \* ns: node -> set of flags
    timer,      \* ns: node -> flag -> deadline of the pending timeout (0: none)
    hist,       \* ns: node -> nodeHistory field (<<>>: unset)
    conn,       \* ns: node -> connectedStats field (<<>>: unset)
    db,         \* ns database: node -> saved record (<<>>: none)
    now,        \* clock.Now()
    timeout,    \* s.timeout as getTimeout returns it
    vtNodes,    \* value tracker: nodes with an entry
    vtValue,    \* value tracker: node -> value of its response time statistics
    peers,      \* peers registered and not yet unregistered
    mixK,       \* mixer: node read from the known selector, not yet pulled
    mixQ,       \* mixer: node read from the alwaysConnect queue, not yet pulled
    demote,     \* goroutines spawned by knownSelectWeight, not yet run
    task,       \* the goroutine of start(): "none" | "select" | "persist" | "done"
    calc,       \* a knownSelectWeight call between its GetField and its SetField: <<>> or <<[node, h]>>
    phase,      \* "new" | "running" | "closed" | "off"
    runs,       \* restarts so far
    clockOffset,\* s.clockOffset
    dbClock,    \* the persistentClock entry of the database
    trusted,    \* s.trusted: the nodes of trustedURLs that parsed
    last,       \* the last operation: its name and the flags before it
    gt,         \* getTimeout: the clock (s), s.timeout, s.timeoutRefreshed, the statistics
    ns,         \* a NodeStateMachine under the setups of its tests, with one node
    nh          \* a nodeHistory field on its way through sfiNodeHistory's encoder and decoder

poolvars == <<state, timer, hist, conn, db, now, timeout, vtNodes, vtValue,
              peers, mixK, mixQ, demote, task, calc, phase, runs, clockOffset, dbClock, trusted, last>>

vars == <<poolvars, gt, ns, nh>>

Max(a, b) == IF a > b THEN a ELSE b

RECURSIVE Pow2(_)
Pow2(k) == IF k <= 0 THEN 1 ELSE 2 * Pow2(k - 1)

\* ------------------------------------------------- numbers of the encoder
\* A float64 that is m * 2^e, with m odd (or 0 with e = 0): the waitFactor, a
\* power of two or a fraction, beyond what an integer here can hold.
RECURSIVE Norm(_, _)
Norm(m, e) ==
    IF m = 0 THEN [m |-> 0, e |-> 0]
    ELSE IF m % 2 = 0 THEN Norm(m \div 2, e + 1)
    ELSE [m |-> m, e |-> e]

FromInt(i) == Norm(i, 0)

ToInt(x) == x.m * Pow2(x.e)

RECURSIVE BitLen(_)
BitLen(m) == IF m = 0 THEN 0 ELSE 1 + BitLen(m \div 2)

\* the whole part of x * 2^k
FloorScaled(x, k) ==
    IF x.e + k >= 0 THEN Norm(x.m, x.e + k) ELSE Norm(x.m \div Pow2(-(x.e + k)), 0)

\* a uint64: a whole number m * 2^e below 2^64, or (sat) the largest uint64
FitsUint64(x) == BitLen(x.m) + x.e <= 64

MaxUint64 == [m |-> 0, e |-> 0, sat |-> TRUE]

\* uint64(f) of a float64 that is whole: the number when it is in the range,
\* and past the range what the platform makes of it (2^63 on amd64, the largest
\* uint64 on arm64)
Uint64OfFloat(x) ==
    IF FitsUint64(x) THEN {[m |-> x.m, e |-> x.e, sat |-> FALSE]}
    ELSE {[m |-> 1, e |-> 63, sat |-> FALSE], MaxUint64}

\* float64(u): the largest uint64 rounds to 2^64
FloatOfUint64(u) == IF u.sat THEN [m |-> 1, e |-> 64] ELSE [m |-> u.m, e |-> u.e]

\* uint64(n.waitFactor * 256), for each outcome of the conversion
WaitFactorEncOutcomes(x) == Uint64OfFloat(FloorScaled(x, 8))

\* float64(ne.WaitFactor) / 256
WaitFactorDec(u) == LET f == FloatOfUint64(u) IN Norm(f.m, f.e - 8)

\* uint64(n.waitUntil) of an int64, and mclock.AbsTime(ne.WaitUntil) back: a
\* negative time is 2^64 more as a uint64 (wrapped: the number it is short of 2^64)
Uint64(t) == IF t < 0 THEN [wrapped |-> TRUE, v |-> -t] ELSE [wrapped |-> FALSE, v |-> t]

AbsTime(u) == IF u.wrapped THEN -u.v ELSE u.v

\* ---------------------------------------------------- expiring accumulator
\* vt.StatsExpirer().LogOffset(now)
logOffset == now \div ExpPeriod

ZeroExpired == [base |-> 0, exp |-> 0]

EvValue(ev, lo) == IF lo >= ev.exp THEN ev.base \div Pow2(lo - ev.exp) ELSE ev.base * Pow2(ev.exp - lo)

EvAdd(ev, amount, lo) == [base |-> EvValue(ev, lo) + amount, exp |-> lo]

\* ------------------------------------------------------ node state machine
\* The machine's part of the state, as one value the operations transform.
Machine == [state |-> state, timer |-> timer, hist |-> hist, conn |-> conn, db |-> db]

NoTimers == [f \in Flags |-> 0]

\* sfiNodeHistory: the encoder keeps dialCost, waitFactor (in 256ths, as a
\* uint64) and waitUntil (as a uint64); one record for each outcome of the
\* conversion of the waitFactor
sfiNodeHistoryEnc(h) ==
    {[dialCost |-> h.dialCost, waitFactor |-> u, waitUntil |-> Uint64(h.waitUntil)] :
        u \in WaitFactorEncOutcomes(h.waitFactor)}

sfiNodeHistoryDec(e) ==
    [dialCost |-> e.dialCost, waitUntil |-> AbsTime(e.waitUntil), lastTimeout |-> 0,
     totalValue |-> 0, waitFactor |-> WaitFactorDec(e.waitFactor)]

\* the encoder and the decoder on the histories of the pool, whose waitFactor
\* is a whole number in the range of the conversion
nodeHistoryEnc(h) == CHOOSE e \in sfiNodeHistoryEnc([h EXCEPT !.waitFactor = FromInt(@)]) : TRUE

nodeHistoryDec(e) == [sfiNodeHistoryDec(e) EXCEPT !.waitFactor = ToInt(@)]

\* the record Persist and Stop write for a node: persistent flags set without
\* timeout and persistent fields; a node without such a flag has no record
SavedFlags(M, n) == {f \in M.state[n] \cap PersistentFlags : M.timer[n][f] = 0}

SavedRecord(M, n) ==
    IF SavedFlags(M, n) = {} THEN <<>>
    ELSE <<[flags |-> SavedFlags(M, n),
            hist |-> IF M.hist[n] = <<>> THEN <<>> ELSE <<nodeHistoryEnc(M.hist[n][1])>>]>>

Persist(M, n) == [M EXCEPT !.db[n] = SavedRecord(M, n)]

\* SetState without the subscribers: clears reset, sets set; cancels the timers
\* of the bits it touches and schedules one for the bits set when tmo > 0, also
\* when the state stays the same; a node left without flags loses its fields.
SetStateRaw(M, n, set, reset, tmo) ==
    LET old == M.state[n]
        new == (old \ reset) \cup set
        timers == [f \in Flags |->
                      IF f \in set /\ tmo > 0 THEN now + tmo
                      ELSE IF f \in (set \cup reset) THEN 0
                      ELSE M.timer[n][f]]
    IN  IF new = old THEN [M EXCEPT !.timer[n] = timers]
        ELSE [M EXCEPT !.state[n] = new,
                       !.timer[n] = timers,
                       !.hist[n] = IF new = {} THEN <<>> ELSE @,
                       !.conn[n] = IF new = {} THEN <<>> ELSE @]

\* SetField: discarded on a node without flags
SetHistory(M, n, h) == IF M.state[n] = {} THEN M ELSE [M EXCEPT !.hist[n] = <<h>>]

SetConnStats(M, n, v) == IF M.state[n] = {} THEN M ELSE [M EXCEPT !.conn[n] = v]

\* -------------------------------------------------------------- serverPool
ZeroHistory == [dialCost |-> ZeroExpired, waitUntil |-> 0, lastTimeout |-> 0,
                totalValue |-> 0, waitFactor |-> 0]

\* ---- sfiNodeHistory: a field through the encoder and the decoder ----
\* the largest power of two among the waitFactors: 2^MaxWaitExp
MaxWaitExp == 56

\* zero, 3/512, 3/2 and the powers of two from 1 on
WaitFactorInputs ==
    {FromInt(0), [m |-> 3, e |-> -9], [m |-> 3, e |-> -1]} \cup {[m |-> 1, e |-> k] : k \in 0..MaxWaitExp}

FieldInputs ==
    [dialCost : {ZeroExpired, [base |-> dialCost, exp |-> 0], [base |-> dialCost + dialCost \div 2, exp |-> 1]},
     waitUntil : {-1, 0, 7},
     lastTimeout : {0, minTimeout},
     totalValue : {0, 1},
     waitFactor : WaitFactorInputs]

ZeroField == [ZeroHistory EXCEPT !.waitFactor = FromInt(0)]

NewField(h) == [op |-> "new", field |-> h, enc |-> <<>>, out |-> <<>>]

\* time.Duration(float64(minRedialWait) * waitFactor): a product past the int64
\* range converts to a value the platform chooses (ovf)
ToDuration(x, ovf) == IF x > MaxDuration THEN ovf ELSE x

OverflowOutcomes == {-MaxDuration - 1, MaxDuration}

\* the outcomes to draw for a node: the platform's choice matters only when the
\* next waitFactor can pass the range
ConversionOutcomes(n) ==
    IF hist[n] # <<>> /\ hist[n][1].waitFactor > MaxDuration \div redialWaitStep
    THEN OverflowOutcomes ELSE {MaxDuration}

\* the waitFactor update of calculateNode: a = totalValue*dialCost,
\* b = totalDialCost*currentValue
NewWaitFactor(wf, a, b) ==
    LET w1 == IF wf < 1 THEN 1 ELSE wf
        \* the factor is followed up to its first value past the duration range
        w2 == IF w1 > MaxDuration THEN w1 ELSE w1 * redialWaitStep
        \* a < b*w2, written without the product (b > 0, w2 whole)
        w3 == IF b > 0 /\ (a \div b) < w2 THEN a \div b ELSE w2
    IN  IF w3 < 1 THEN 1 ELSE w3

\* the weight rounded up instead of cut off
NodeWeightRoundedUp(totalValue, totalDialCost) ==
    (totalValue * nodeWeightMul + totalDialCost - 1) \div totalDialCost

NodeWeight(totalValue, totalDialCost) == (totalValue * nodeWeightMul) \div totalDialCost

\* calculateNode on a node with a value-tracker entry: the history after the
\* call, the weight and the redial wait it returns
calculateNodeTracked(M, n, failedConnection, remoteDisconnect, ovf) ==
    LET h == IF M.hist[n] = <<>> THEN ZeroHistory ELSE M.hist[n][1]
        currentStats == vtValue[n]
        currentValue == IF remoteDisconnect /\ M.conn[n] # <<>>
                        THEN currentStats - M.conn[n][1] ELSE 0
        dc == IF failedConnection \/ remoteDisconnect
              THEN EvAdd(h.dialCost, dialCost, logOffset) ELSE h.dialCost
        totalDialCost == Max(EvValue(dc, logOffset), dialCost)
        recompute == \/ remoteDisconnect
                     \/ timeout < h.lastTimeout - timeoutChangeThreshold
                     \/ timeout > h.lastTimeout + timeoutChangeThreshold
        totalValue == IF recompute THEN currentStats ELSE h.totalValue
        lastTimeout == IF recompute THEN timeout ELSE h.lastTimeout
        backoff == failedConnection \/ remoteDisconnect
        wf == IF backoff
              THEN NewWaitFactor(h.waitFactor, totalValue * dialCost, totalDialCost * currentValue)
              ELSE h.waitFactor
        wait == IF backoff THEN ToDuration(minRedialWait * wf, ovf) ELSE 0
        waitUntil == IF backoff THEN now + clockOffset + wait ELSE h.waitUntil
        h2 == [dialCost |-> dc, waitUntil |-> waitUntil, lastTimeout |-> lastTimeout,
               totalValue |-> totalValue, waitFactor |-> wf]
    IN  [M |-> IF recompute \/ backoff THEN SetHistory(M, n, h2) ELSE M, h |-> h2,
         wt |-> NodeWeight(totalValue, totalDialCost), wait |-> wait]

\* calculateNode without the test for the value-tracker entry: the statistics
\* of a node without an entry read as zero
calculateNodeUnchecked(M, n, failedConnection, remoteDisconnect, ovf) ==
    calculateNodeTracked(M, n, failedConnection, remoteDisconnect, ovf)

\* calculateNode: (0, 0) and nothing written for a node without a
\* value-tracker entry
calculateNode(M, n, failedConnection, remoteDisconnect, ovf) ==
    IF n \notin vtNodes
    THEN [M |-> M, h |-> IF M.hist[n] = <<>> THEN ZeroHistory ELSE M.hist[n][1], wt |-> 0, wait |-> 0]
    ELSE calculateNodeTracked(M, n, failedConnection, remoteDisconnect, ovf)

\* the subscription on stDialed|stConnected: dial timeout, no connection
SubMask == {sfDialed, sfConnected}

DialTimeoutCond(oldState, newState) == oldState = {sfDialed} /\ newState = {}

\* SetState with the pool's subscriber run on the change (the redialWait it sets
\* changes no subscribed bit)
SetState(M, n, set, reset, tmo, ovf) ==
    LET M1 == SetStateRaw(M, n, set, reset, tmo)
        oldState == M.state[n] \cap SubMask
        newState == M1.state[n] \cap SubMask
    IN  IF oldState # newState /\ DialTimeoutCond(oldState, newState)
        THEN LET r == calculateNode(M1, n, TRUE, FALSE, ovf)
             IN  SetStateRaw(r.M, n, {sfRedialWait}, {}, r.wait)
        ELSE M1

\* ------------------------------------------------------------------ actions
Op(name) == [op |-> name, pre |-> state]

Apply(M) ==
    /\ state' = M.state
    /\ timer' = M.timer
    /\ hist' = M.hist
    /\ conn' = M.conn
    /\ db' = M.db

\* ---- NodeStateMachine under the setups of its tests ----

\* the longest timeout a test SetState asks for (clock steps)
MaxTimeout == 2

\* testSetup: flag-0 is persistent, flag-1 and flag-2 are not; the uint64 and
\* the string fields are persistent, the uint32 field is not
PersistentFlagNames == {"flag-0"}

FieldType == [f \in {"field-0", "field-1", "field-2"} |->
                 IF f = "field-0" THEN "uint64" ELSE IF f = "field-1" THEN "string" ELSE "uint32"]

PersistentTypes == {"uint64", "string"}

\* a setup is the registration order of the flags and of the fields (and whether
\* the reentrant subscriber is subscribed); Setup2 registers those of Setup1 in
\* another order, and one field more
Setup1 == [flags |-> <<"flag-0", "flag-1", "flag-2">>, fields |-> <<"field-0", "field-1">>,
           reentrant |-> FALSE]

Setup2 == [flags |-> <<"flag-1", "flag-0", "flag-2">>, fields |-> <<"field-1", "field-0", "field-2">>,
           reentrant |-> FALSE]

Setups == {Setup1, Setup2}

\* Setup1 with a second state subscriber that calls SetState from its callback,
\* as the subscriber of the pool does
SetupReentrant == [Setup1 EXCEPT !.reentrant = TRUE]

\* a field value is its dynamic type and its bytes; nil is the unset field
Nil == [type |-> "nil", bytes |-> ""]

TestValues == {[type |-> "uint64", bytes |-> "100"],
               [type |-> "string", bytes |-> "hello world"],
               [type |-> "uint32", bytes |-> "32"],
               [type |-> "int", bytes |-> "123"],
               Nil}

\* the encoders keep the bytes, the decoder of a field gives them its type
FieldEnc(v) == v.bytes

FieldDec(type, enc) == [type |-> type, bytes |-> enc]

\* the state handed to the field subscribers at Start and at Stop; the
\* registered flags take the bits from 1 on
offlineState == {0}

Bits(s) == 1..Len(s.flags)

FieldIndexes(s) == 1..Len(s.fields)

StateMask(s, names) == {i \in Bits(s) : s.flags[i] \in names}

FieldIndex(s, name) == CHOOSE i \in FieldIndexes(s) : s.fields[i] = name

\* the mask of the state subscription of TestSetState: flags[0]|flags[1]
SubscribedMask(s) == StateMask(s, {"flag-0", "flag-1"})

SaveMask(s) == StateMask(s, PersistentFlagNames)

IsPersistentField(s, i) == FieldType[s.fields[i]] \in PersistentTypes

NoFields(s) == [i \in FieldIndexes(s) |-> Nil]

\* a machine constructed on a database, not started: no node in memory
NewNodeStateMachine(s, d) ==
    [setup |-> s, phase |-> "new", state |-> {}, timeouts |-> {}, fields |-> NoFields(s),
     dirty |-> FALSE, db |-> d, op |-> "new", err |-> "nil", events |-> <<>>]

\* what the subscribers and the saveNodeHook are called with
StateEvent(old, new) == [kind |-> "state", old |-> old, new |-> new, field |-> "", save |-> <<>>]

FieldEvent(name, st, old, new) == [kind |-> "field", old |-> old, new |-> new, field |-> name, save |-> st]

SaveEvent(rec) == [kind |-> "save", old |-> {}, new |-> {}, field |-> "", save |-> rec]

\* the start of an operation: the callbacks of the operation are collected
Begin(m, name) == [m EXCEPT !.op = name, !.err = "nil", !.events = <<>>]

\* the field events for the fields in idx, in the order of the indexes:
\* to[i] is the pair <<old, new>> the subscriber of field i is called with
RECURSIVE FieldEvents(_, _, _, _)
FieldEvents(s, idx, st, to) ==
    IF idx = {} THEN <<>>
    ELSE LET i == CHOOSE j \in idx : \A k \in idx : j <= k
         IN  <<FieldEvent(s.fields[i], st, to[i][1], to[i][2])>>
                 \o FieldEvents(s, idx \ {i}, st, to)

LiveFields(m) == {i \in FieldIndexes(m.setup) : m.fields[i] # Nil}

\* the callback of the state subscription for a change from old to new: called
\* when a bit of its mask changed, with the two states restricted to the mask
StateCallbacksUnmasked(s, old, new) == <<StateEvent(old, new)>>

StateCallbacks(s, old, new) ==
    LET sub == SubscribedMask(s)
    IN  IF old \cap sub # new \cap sub THEN <<StateEvent(old \cap sub, new \cap sub)>> ELSE <<>>

\* the pending timeouts after a SetState that changes the state: they lose the
\* bits the call touches, and the bits set get one timeout when tmo > 0
ScheduledPerBit(timeouts, set, reset, tmo) ==
    LET kept == {[mask |-> t.mask \ (set \cup reset), left |-> t.left] : t \in timeouts}
        pending == {t \in kept : t.mask # {}}
    IN  IF tmo > 0 THEN pending \cup {[mask |-> {b}, left |-> tmo] : b \in set} ELSE pending

\* the pending timeouts after a SetState that leaves the earlier ones alone
ScheduledKeepsEarlier(timeouts, set, reset, tmo) ==
    LET kept == {[mask |-> t.mask \ reset, left |-> t.left] : t \in timeouts}
        pending == {t \in kept : t.mask # {}}
    IN  IF tmo > 0 /\ set # {} THEN pending \cup {[mask |-> set, left |-> tmo]} ELSE pending

Scheduled(timeouts, set, reset, tmo) ==
    LET kept == {[mask |-> t.mask \ (set \cup reset), left |-> t.left] : t \in timeouts}
        pending == {t \in kept : t.mask # {}}
    IN  IF tmo > 0 /\ set # {} THEN pending \cup {[mask |-> set, left |-> tmo]} ELSE pending

\* the fields of a node whose state becomes new: a node left without flags
\* loses every field
FieldsKeptIfPersistent(m, new) ==
    IF new = {} THEN [i \in FieldIndexes(m.setup) |->
                         IF IsPersistentField(m.setup, i) THEN m.fields[i] ELSE Nil]
    ELSE m.fields

FieldsKept(m, new) == IF new = {} THEN NoFields(m.setup) ELSE m.fields

\* one change of SetState: clears reset and sets set. The pending timeouts of the bits it
\* touches are cancelled and one is scheduled for the bits set when tmo > 0, the
\* node is dirty when the flags to store have changed. When the state stays the
\* same nothing else happens; otherwise the state subscriber is called, and the
\* subscriber of each field the node loses is called with (0, old, nil).
nsmApplyChange(m, set, reset, tmo) ==
    LET s == m.setup
        old == m.state
        new == (old \ reset) \cup set
        fields == FieldsKept(m, new)
        old_new == [i \in FieldIndexes(s) |-> <<m.fields[i], fields[i]>>]
        lost == {i \in FieldIndexes(s) : fields[i] # m.fields[i]}
        timeouts == Scheduled(m.timeouts, set, reset, tmo)
        stored(st, tm) == (st \cap SaveMask(s)) \ UNION {t.mask : t \in tm}
        dirty == m.dirty \/ stored(old, m.timeouts) # stored(new, timeouts)
    IN  IF new = old THEN [m EXCEPT !.timeouts = timeouts, !.dirty = dirty]
        ELSE [m EXCEPT !.state = new,
                       !.timeouts = timeouts,
                       !.fields = fields,
                       !.dirty = dirty,
                       !.events = @ \o StateCallbacks(s, old, new)
                                    \o FieldEvents(s, lost, new, old_new)]

\* the reentrant subscriber, subscribed before the recorded one on the same
\* mask: when the subscribed bits go from flag-0 alone to none it sets flag-1
\* (the pool's: from dialed alone to none it sets redialWait)
ReentrantCall(s, oldState, newState) ==
    /\ s.reentrant
    /\ oldState \cap SubscribedMask(s) = StateMask(s, {"flag-0"})
    /\ newState \cap SubscribedMask(s) = {}

\* SetState with the nested call delivered at once: the recorded subscriber gets
\* the change of the nested call before the change that caused it
nsmSetStateNestedFirst(m, set, reset, tmo) ==
    LET m1 == nsmApplyChange(m, set, reset, tmo)
        m2 == nsmApplyChange(m1, StateMask(m.setup, {"flag-1"}), {}, 0)
        outer == SubSeq(m1.events, Len(m.events) + 1, Len(m1.events))
        nested == SubSeq(m2.events, Len(m1.events) + 1, Len(m2.events))
    IN  IF ReentrantCall(m.setup, m.state, m1.state)
        THEN [m2 EXCEPT !.events = m.events \o nested \o outer]
        ELSE m1

\* SetState: the change is applied and its callbacks are made; a SetState that a
\* subscriber calls from its callback is queued, applied after the callbacks of
\* the change in progress and before the outer call returns
nsmSetState(m, set, reset, tmo) ==
    LET m1 == nsmApplyChange(m, set, reset, tmo)
    IN  IF ReentrantCall(m.setup, m.state, m1.state)
        THEN nsmApplyChange(m1, StateMask(m.setup, {"flag-1"}), {}, 0)
        ELSE m1

\* SetField that stores on a node without flags too
nsmSetFieldAnyState(m, i, v) ==
    LET s == m.setup
    IN  IF v # Nil /\ v.type # FieldType[s.fields[i]] THEN [m EXCEPT !.err = "invalid field"]
        ELSE IF v = m.fields[i] THEN m
        ELSE [m EXCEPT !.fields[i] = v,
                       !.dirty = @ \/ IsPersistentField(s, i),
                       !.events = @ \o <<FieldEvent(s.fields[i], m.state, m.fields[i], v)>>]

\* SetField that stores a value of any dynamic type
nsmSetFieldUntyped(m, i, v) ==
    LET s == m.setup
    IN  IF m.state = {} THEN m
        ELSE IF v = m.fields[i] THEN m
        ELSE [m EXCEPT !.fields[i] = v,
                       !.dirty = @ \/ IsPersistentField(s, i),
                       !.events = @ \o <<FieldEvent(s.fields[i], m.state, m.fields[i], v)>>]

\* SetField: discarded without error on a node without flags; a value of
\* another dynamic type than the field's is refused; nil clears the field
nsmSetField(m, i, v) ==
    LET s == m.setup
    IN  IF m.state = {} THEN m
        ELSE IF v # Nil /\ v.type # FieldType[s.fields[i]] THEN [m EXCEPT !.err = "invalid field"]
        ELSE IF v = m.fields[i] THEN m
        ELSE [m EXCEPT !.fields[i] = v,
                       !.dirty = @ \/ IsPersistentField(s, i),
                       !.events = @ \o <<FieldEvent(s.fields[i], m.state, m.fields[i], v)>>]

GetField(m, i) == m.fields[i]

\* the stored record: the persistent flags set without a pending timeout and
\* the encodings of the persistent fields, both keyed by name; a node without
\* such a flag has no record
TimedBits(m) == UNION {t.mask : t \in m.timeouts}

\* the stored record with the flags and the fields keyed by their index (the
\* name the first setup gives the index) instead of by their name
savedRecordByIndex(m) ==
    LET s == m.setup
        bits == (m.state \cap SaveMask(s)) \ TimedBits(m)
    IN  IF bits = {} THEN <<>>
        ELSE <<[flags |-> {Setup1.flags[i] : i \in bits},
                fields |-> {[name |-> Setup1.fields[i], enc |-> FieldEnc(m.fields[i])] :
                               i \in {j \in LiveFields(m) : IsPersistentField(s, j)}}]>>

nsmSavedRecord(m) ==
    LET s == m.setup
        bits == (m.state \cap SaveMask(s)) \ TimedBits(m)
    IN  IF bits = {} THEN <<>>
        ELSE <<[flags |-> {s.flags[i] : i \in bits},
                fields |-> {[name |-> s.fields[i], enc |-> FieldEnc(m.fields[i])] :
                               i \in {j \in LiveFields(m) : IsPersistentField(s, j)}}]>>

\* saveNode that writes the node whether it is dirty or not
saveNodeAlways(m) ==
    LET rec == nsmSavedRecord(m)
    IN  [m EXCEPT !.db = rec, !.dirty = FALSE,
                  !.events = @ \o (IF rec = <<>> THEN <<>> ELSE <<SaveEvent(rec)>>)]

\* saveNode: writes a dirty node (the saveNodeHook sees each write)
saveNode(m) ==
    IF ~m.dirty THEN m
    ELSE LET rec == nsmSavedRecord(m)
         IN  [m EXCEPT !.db = rec, !.dirty = FALSE,
                       !.events = @ \o (IF rec = <<>> THEN <<>> ELSE <<SaveEvent(rec)>>)]

\* Start: loads the node of the database, resolving the names of the record
\* to the indexes of this setup; the subscriber of each restored field is
\* called with (offlineState, nil, restored)
nsmStart(m) ==
    LET s == m.setup
        rec == m.db[1]
        stored(i) == {e \in rec.fields : e.name = s.fields[i]}
        loaded == [i \in FieldIndexes(s) |->
                      IF stored(i) = {} THEN Nil
                      ELSE FieldDec(FieldType[s.fields[i]], (CHOOSE e \in stored(i) : TRUE).enc)]
        nil_new == [i \in FieldIndexes(s) |-> <<Nil, loaded[i]>>]
    IN  IF m.db = <<>> THEN [m EXCEPT !.phase = "running"]
        ELSE [m EXCEPT !.phase = "running",
                       !.state = StateMask(s, rec.flags),
                       !.fields = loaded,
                       !.events = @ \o FieldEvents(s, {i \in FieldIndexes(s) : loaded[i] # Nil},
                                                   offlineState, nil_new)]

\* Stop that drops the memory without a call to the field subscribers
nsmStopSilent(m) ==
    [saveNode(m) EXCEPT !.phase = "stopped", !.state = {}, !.timeouts = {}, !.fields = NoFields(m.setup)]

\* Stop: the subscriber of each live field is called with (offlineState,
\* value, nil), the dirty node is written, the memory is dropped
nsmStop(m) ==
    LET s == m.setup
        old_nil == [i \in FieldIndexes(s) |-> <<m.fields[i], Nil>>]
        saved == saveNode([m EXCEPT !.events = @ \o FieldEvents(s, LiveFields(m), offlineState, old_nil)])
    IN  [saved EXCEPT !.phase = "stopped", !.state = {}, !.timeouts = {}, !.fields = NoFields(s)]

\* the expiry of timeout t: the bits of the call that are still set are cleared
Expire(m, t) == nsmSetState([m EXCEPT !.timeouts = @ \ {t}], {}, t.mask \cap m.state, 0)

\* the machines after the timeouts in due have expired, in any order
RECURSIVE ExpireAll(_, _)
ExpireAll(m, due) ==
    IF due = {} THEN {m}
    ELSE UNION {ExpireAll(Expire(m, t), due \ {t}) : t \in due \cap m.timeouts}
           \cup (IF due \cap m.timeouts = {} THEN {m} ELSE {})

\* the clock advances by one step
nsmRun(m) ==
    LET waited == [m EXCEPT !.timeouts = {[mask |-> t.mask, left |-> t.left - 1] : t \in @}]
    IN  ExpireAll(waited, {t \in waited.timeouts : t.left = 0})

\* ---- getTimeout: the cached request timeout ----

\* timeoutRefresh, in seconds
timeoutRefresh == 5

\* the last clock reading (s) of the timeout specification
MaxSeconds == 7

\* the clock readings the pool can be constructed at: a simulated clock starts
\* at 0, the system's monotonic clock reads later
ClockStarts == {0, 1}

\* what the response time statistics give for max(Timeout(0.1), Timeout(0.5)*2)
StatsTimeouts == {minTimeout \div 2, minTimeout, 2 * minTimeout}

\* the fields getTimeout works on (clock.Now() in s, s.timeout in ms,
\* s.timeoutRefreshed in s, the statistics), with the last call's outcome:
\* calls = whether getTimeout has recomputed yet, at = the clock reading of the
\* last recomputation, ret = the last value returned, read = whether the last
\* call read the statistics
NewTimeout(c, st) ==
    [clock |-> c, timeout |-> 0, timeoutRefreshed |-> 0, stats |-> st,
     calls |-> FALSE, at |-> 0, ret |-> 0, read |-> FALSE]

getTimeout(g) ==
    IF g.timeoutRefreshed # 0 /\ g.clock - g.timeoutRefreshed < timeoutRefresh
    THEN [g EXCEPT !.ret = g.timeout, !.read = FALSE]
    ELSE LET t == Max(minTimeout, g.stats)
         IN  [g EXCEPT !.timeout = t, !.timeoutRefreshed = g.clock,
                       !.calls = TRUE, !.at = g.clock, !.ret = t, !.read = TRUE]

InitPool ==
    /\ state = [n \in Nodes |-> {}]
    /\ timer = [n \in Nodes |-> NoTimers]
    /\ hist = [n \in Nodes |-> <<>>]
    /\ conn = [n \in Nodes |-> <<>>]
    /\ db = [n \in Nodes |-> <<>>]
    /\ now = 0
    /\ timeout = minTimeout
    /\ vtNodes = {}
    /\ vtValue = [n \in Nodes |-> 0]
    /\ peers = {}
    /\ mixK = <<>>
    /\ mixQ = <<>>
    /\ demote = {}
    /\ task = "none"
    /\ calc = <<>>
    /\ phase = "new"
    /\ runs = 0
    /\ clockOffset = 0
    /\ dbClock = <<>>
    /\ trusted \in SUBSET Nodes
    /\ last = Op("init")

Init ==
    /\ InitPool
    /\ gt = NewTimeout(0, minTimeout)
    /\ ns = NewNodeStateMachine(Setup1, <<>>)
    /\ nh = NewField(ZeroField)

\* each Fn(n) changes node n's part of the machine only
PerNode(Fn(_)) ==
    [state |-> [n \in Nodes |-> Fn(n).state[n]],
     timer |-> [n \in Nodes |-> Fn(n).timer[n]],
     hist |-> [n \in Nodes |-> Fn(n).hist[n]],
     conn |-> [n \in Nodes |-> Fn(n).conn[n]],
     db |-> [n \in Nodes |-> Fn(n).db[n]]]

\* start(): alwaysConnect on the trusted nodes, the clock offset, redialWait
\* restored from waitUntil
startNode(M, n, clockStart, ovf) ==
    LET M1 == IF n \in trusted THEN SetState(M, n, {sfAlwaysConnect}, {}, 0, ovf) ELSE M
    IN  IF /\ sfHasValue \in M1.state[n]
           /\ M1.hist[n] # <<>>
           /\ M1.hist[n][1].waitUntil > clockStart
        THEN SetState(M1, n, {sfRedialWait}, {}, M1.hist[n][1].waitUntil - clockStart, ovf)
        ELSE M1

Start ==
    /\ phase = "new"
    /\ \E ovf \in {MaxDuration} :  \* start() converts no waitFactor
         LET clockStart == IF dbClock = <<>> THEN 0 ELSE dbClock[1]
             F(n) == startNode(Machine, n, clockStart, ovf)
         IN  /\ Apply(PerNode(F))
             /\ clockOffset' = clockStart - now
    /\ phase' = "running"
    /\ task' = "select"
    /\ last' = Op("start")
    /\ UNCHANGED <<now, timeout, vtNodes, vtValue, peers, mixK, mixQ, demote, runs, dbClock, trusted, calc, gt, ns, nh>>

\* sources handed to the mixer by the constructor already
SourcesAddedByConstructor == phase \in {"new", "running"}

\* the mixer has its sources: start() adds them in one batch, Close() ends them
SourcesAdded == phase = "running"

\* the filter of the dial iterator
dialFilter(M, n, ovf) == SetState(M, n, {sfDialed}, {}, dialTimeout, ovf)

\* the accumulators of a node are capped in the guards of the dial sources
Budget(n) ==
    IF hist[n] = <<>> THEN TRUE
    ELSE EvValue(hist[n][1].dialCost, logOffset) < MaxDialCost * dialCost

PullDiscovery(n) ==
    /\ SourcesAdded
    /\ Budget(n)
    /\ \E ovf \in ConversionOutcomes(n) : Apply(dialFilter(Machine, n, ovf))
    /\ last' = Op("pullDiscovery")
    /\ UNCHANGED <<now, timeout, vtNodes, vtValue, peers, mixK, mixQ, demote, phase, runs, clockOffset, dbClock, trusted, task, calc, gt, ns, nh>>

PullKnown ==
    /\ SourcesAdded
    /\ mixK # <<>>
    /\ \E ovf \in ConversionOutcomes(mixK[1]) : Apply(dialFilter(Machine, mixK[1], ovf))
    /\ mixK' = <<>>
    /\ last' = Op("pullKnown")
    /\ UNCHANGED <<now, timeout, vtNodes, vtValue, peers, mixQ, demote, phase, runs, clockOffset, dbClock, trusted, task, calc, gt, ns, nh>>

PullQueue ==
    /\ SourcesAdded
    /\ mixQ # <<>>
    /\ \E ovf \in ConversionOutcomes(mixQ[1]) : Apply(dialFilter(Machine, mixQ[1], ovf))
    /\ mixQ' = <<>>
    /\ last' = Op("pullQueue")
    /\ UNCHANGED <<now, timeout, vtNodes, vtValue, peers, mixK, demote, phase, runs, clockOffset, dbClock, trusted, task, calc, gt, ns, nh>>

Selectable(n, require) == require \in state[n] /\ state[n] \cap disableSelection = {}

\* knownSelectWeight without the threshold
knownSelectWeightNoThreshold(M, n, ovf) ==
    LET r == calculateNode(M, n, FALSE, FALSE, ovf)
    IN  [M |-> r.M, wt |-> r.wt, spawn |-> FALSE]

\* knownSelectWeight: the weight it returns, whether it spawns the goroutine
knownSelectWeight(M, n, ovf) ==
    LET r == calculateNode(M, n, FALSE, FALSE, ovf)
    IN  IF r.wt < nodeWeightThreshold
        THEN [M |-> r.M, wt |-> 0, spawn |-> TRUE]
        ELSE [M |-> r.M, wt |-> r.wt, spawn |-> FALSE]

\* the known selector calls knownSelectWeight on a candidate and emits it when
\* the weight is positive
KnownSelect(n) ==
    /\ SourcesAdded
    /\ mixK = <<>>
    /\ Budget(n)
    /\ Selectable(n, sfHasValue)
    /\ \E ovf \in ConversionOutcomes(n) :
         LET k == knownSelectWeight(Machine, n, ovf)
         IN  /\ demote' = IF k.spawn THEN demote \cup {n} ELSE demote
             /\ IF k.wt > 0
                THEN /\ Apply(SetState(k.M, n, {sfSelected}, {}, 0, ovf))
                     /\ mixK' = <<n>>
                     /\ last' = Op("knownEmit")
                ELSE /\ Apply(k.M)
                     /\ mixK' = mixK
                     /\ last' = Op("knownZero")
    /\ UNCHANGED <<now, timeout, vtNodes, vtValue, peers, mixQ, phase, runs, clockOffset, dbClock, trusted, task, calc, gt, ns, nh>>

\* the goroutine knownSelectWeight spawned
DemoteTask(n) ==
    /\ n \in demote
    /\ phase # "off"
    /\ \E ovf \in ConversionOutcomes(n) :
         Apply(Persist(SetState(Machine, n, {}, {sfHasValue}, 0, ovf), n))
    /\ demote' = demote \ {n}
    /\ last' = Op("demote")
    /\ UNCHANGED <<now, timeout, vtNodes, vtValue, peers, mixK, mixQ, phase, runs, clockOffset, dbClock, trusted, task, calc, gt, ns, nh>>

QueueSelect(n) ==
    /\ SourcesAdded
    /\ mixQ = <<>>
    /\ Selectable(n, sfAlwaysConnect)
    /\ \E ovf \in ConversionOutcomes(n) : Apply(SetState(Machine, n, {sfSelected}, {}, 0, ovf))
    /\ mixQ' = <<n>>
    /\ last' = Op("queueEmit")
    /\ UNCHANGED <<now, timeout, vtNodes, vtValue, peers, mixK, demote, phase, runs, clockOffset, dbClock, trusted, task, calc, gt, ns, nh>>

\* the selectors take selected off a node again
Unselect(n) ==
    /\ phase = "running"
    /\ sfSelected \in state[n]
    /\ \E ovf \in ConversionOutcomes(n) : Apply(SetState(Machine, n, {}, {sfSelected}, 0, ovf))
    /\ last' = Op("unselect")
    /\ UNCHANGED <<now, timeout, vtNodes, vtValue, peers, mixK, mixQ, demote, phase, runs, clockOffset, dbClock, trusted, task, calc, gt, ns, nh>>

\* registerPeer clearing dialed and setting connected in two SetState calls
registerPeerTwoSteps(M, n, ovf) ==
    SetConnStats(SetState(SetState(M, n, {}, {sfDialed}, 0, ovf),
                          n, {sfConnected}, {}, 0, ovf), n, <<vtValue[n]>>)

registerPeer(M, n, ovf) ==
    SetConnStats(SetState(M, n, {sfConnected}, {sfDialed}, 0, ovf), n, <<vtValue[n]>>)

Register(n) ==
    /\ phase = "running"
    /\ n \notin peers
    /\ \E ovf \in ConversionOutcomes(n) : Apply(registerPeer(Machine, n, ovf))
    /\ vtNodes' = vtNodes \cup {n}
    /\ peers' = peers \cup {n}
    /\ last' = Op("registerPeer")
    /\ UNCHANGED <<now, timeout, vtValue, mixK, mixQ, demote, phase, runs, clockOffset, dbClock, trusted, task, calc, gt, ns, nh>>

RegisterPeer(n) == Budget(n) /\ Register(n)

\* unregisterPeer taking connected off before it sets redialWait
unregisterPeerTwoSteps(M, n, ovf) ==
    LET r == calculateNode(M, n, FALSE, TRUE, ovf)
        M1 == SetConnStats(r.M, n, <<>>)
        M2 == SetState(SetState(M1, n, {}, {sfConnected}, 0, ovf), n, {sfRedialWait}, {}, r.wait, ovf)
    IN  IF r.wt >= nodeWeightThreshold
        THEN Persist(SetState(M2, n, {sfHasValue}, {}, 0, ovf), n)
        ELSE M2

unregisterPeer(M, n, ovf) ==
    LET r == calculateNode(M, n, FALSE, TRUE, ovf)
        M1 == SetConnStats(r.M, n, <<>>)
        M2 == SetState(M1, n, {sfRedialWait}, {sfConnected}, r.wait, ovf)
    IN  IF r.wt >= nodeWeightThreshold
        THEN Persist(SetState(M2, n, {sfHasValue}, {}, 0, ovf), n)
        ELSE M2

UnregisterPeer(n) ==
    /\ phase \in {"running", "closed"}
    /\ n \in peers
    /\ \E ovf \in ConversionOutcomes(n) : Apply(unregisterPeer(Machine, n, ovf))
    /\ peers' = peers \ {n}
    /\ last' = Op("unregisterPeer")
    /\ UNCHANGED <<now, timeout, vtNodes, vtValue, mixK, mixQ, demote, phase, runs, clockOffset, dbClock, trusted, task, calc, gt, ns, nh>>

\* a connected server answers requests: its statistics grow
Serve(n) ==
    /\ n \in peers
    /\ phase = "running"
    /\ vtValue[n] < MaxValue
    /\ vtValue' = [vtValue EXCEPT ![n] = @ + 1]
    /\ last' = Op("serve")
    /\ UNCHANGED <<state, timer, hist, conn, db, now, timeout, vtNodes, peers, mixK, mixQ, demote, phase, runs, clockOffset, dbClock, trusted, task, calc, gt, ns, nh>>

\* getTimeout recomputes the timeout from changed statistics: slower responses
\* have come in
TimeoutDrift ==
    /\ phase = "running"
    /\ timeout' \in {t \in Timeouts : t > timeout}
    /\ last' = Op("timeout")
    /\ UNCHANGED <<state, timer, hist, conn, db, now, vtNodes, vtValue, peers, mixK, mixQ, demote, phase, runs, clockOffset, dbClock, trusted, task, calc, gt, ns, nh>>

Due(n, f) == timer[n][f] # 0 /\ timer[n][f] <= now

\* a flag's timeout: the machine clears the flag
TimerExpire(n, f) ==
    /\ phase # "off"
    /\ Due(n, f)
    /\ \E ovf \in ConversionOutcomes(n) : Apply(SetState(Machine, n, {}, {f}, 0, ovf))
    /\ last' = Op("timer")
    /\ UNCHANGED <<now, timeout, vtNodes, vtValue, peers, mixK, mixQ, demote, phase, runs, clockOffset, dbClock, trusted, task, calc, gt, ns, nh>>

Tick ==
    /\ now < MaxClock
    /\ phase \in {"running", "off"}
    /\ \A n \in Nodes, f \in Flags : ~Due(n, f)
    /\ now' = now + 1
    /\ last' = Op("tick")
    /\ UNCHANGED <<state, timer, hist, conn, db, timeout, vtNodes, vtValue, peers, mixK, mixQ, demote, phase, runs, clockOffset, dbClock, trusted, task, calc, gt, ns, nh>>

\* stop() without the comparison with the threshold
stopNodeNoThreshold(M, n, ovf) ==
    IF sfConnected \notin M.state[n] THEN M
    ELSE Persist(SetState(calculateNode(M, n, FALSE, FALSE, ovf).M, n, {sfHasValue}, {}, 0, ovf), n)

\* stop() recomputing the weight as after a failed dial
stopNodeAsFailedDial(M, n, ovf) ==
    IF sfConnected \notin M.state[n] THEN M
    ELSE LET r == calculateNode(M, n, TRUE, FALSE, ovf)
         IN  IF r.wt >= nodeWeightThreshold
             THEN Persist(SetState(r.M, n, {sfHasValue}, {}, 0, ovf), n)
             ELSE r.M

\* stop(): hasValue for the connected nodes that are worth it, the clock saved
stopNode(M, n, ovf) ==
    IF sfConnected \notin M.state[n] THEN M
    ELSE LET r == calculateNode(M, n, FALSE, FALSE, ovf)
         IN  IF r.wt >= nodeWeightThreshold
             THEN Persist(SetState(r.M, n, {sfHasValue}, {}, 0, ovf), n)
             ELSE r.M

\* the clock written as the monotonic clock reads, without the offset
persistClockWithoutOffset == <<AbsTime(Uint64(now))>>

\* persistClock(): the clock on the persistent scale, through its uint64
\* encoding, as start() reads it back
persistClock == <<AbsTime(Uint64(now + clockOffset))>>

Stop ==
    /\ phase = "running"
    /\ \E ovf \in {MaxDuration} :  \* stop() converts no waitFactor
         LET F(n) == stopNode(Machine, n, ovf) IN Apply(PerNode(F))
    /\ dbClock' = persistClock
    /\ phase' = "closed"
    /\ mixK' = <<>>
    /\ mixQ' = <<>>
    /\ last' = Op("stop")
    /\ UNCHANGED <<now, timeout, vtNodes, vtValue, peers, demote, runs, clockOffset, trusted, task, calc, gt, ns, nh>>

\* the machine's Stop: every node with persistent data is written, the memory is gone
NsStop ==
    /\ phase = "closed"
    /\ db' = [n \in Nodes |-> SavedRecord(Machine, n)]
    /\ state' = [n \in Nodes |-> {}]
    /\ timer' = [n \in Nodes |-> NoTimers]
    /\ hist' = [n \in Nodes |-> <<>>]
    /\ conn' = [n \in Nodes |-> <<>>]
    /\ peers' = {}
    /\ demote' = {}
    /\ phase' = "off"
    /\ last' = Op("nsStop")
    /\ UNCHANGED <<now, timeout, vtNodes, vtValue, mixK, mixQ, runs, clockOffset, dbClock, trusted, task, calc, gt, ns, nh>>

\* a new process: the machine's Start loads the saved nodes
NsStart ==
    /\ phase = "off"
    /\ runs < MaxRuns
    /\ runs' = runs + 1
    /\ state' = [n \in Nodes |-> IF db[n] = <<>> THEN {} ELSE db[n][1].flags]
    /\ hist' = [n \in Nodes |-> IF db[n] = <<>> \/ db[n][1].flags = {} \/ db[n][1].hist = <<>>
                                THEN <<>> ELSE <<nodeHistoryDec(db[n][1].hist[1])>>]
    /\ phase' = "new"
    /\ clockOffset' = 0
    /\ task' = "none"
    /\ last' = Op("nsStart")
    /\ UNCHANGED <<timer, conn, db, now, timeout, vtNodes, vtValue, peers, mixK, mixQ, demote, dbClock, trusted, calc, gt, ns, nh>>

\* one life of the process: from the construction to the machine's Stop
Next ==
    \/ Start
    \/ \E n \in Nodes : PullDiscovery(n)
    \/ PullKnown
    \/ PullQueue
    \/ \E n \in Nodes : KnownSelect(n)
    \/ \E n \in Nodes : DemoteTask(n)
    \/ \E n \in Nodes : QueueSelect(n)
    \/ \E n \in Nodes : Unselect(n)
    \/ \E n \in Nodes : RegisterPeer(n)
    \/ \E n \in Nodes : UnregisterPeer(n)
    \/ \E n \in Nodes : Serve(n)
    \/ TimeoutDrift
    \/ \E n \in Nodes, f \in Flags : TimerExpire(n, f)
    \/ Tick
    \/ Stop
    \/ NsStop

Spec == Init /\ [][Next]_vars

\* the process restarted on the database the last one left
NextRestart ==
    \/ Next
    \/ NsStart

SpecRestart == Init /\ [][NextRestart]_vars

\* the goroutines of knownSelectWeight get to run
FairSpec == Spec /\ \A n \in Nodes : WF_vars(DemoteTask(n))

\* the consumer keeps pulling the dial iterator, the selectors and the timers
\* get to run, the clock advances
FairDialSpec ==
    /\ Spec
    /\ WF_vars(PullKnown) /\ WF_vars(PullQueue) /\ WF_vars(Tick)
    /\ \A n \in Nodes : WF_vars(QueueSelect(n)) /\ WF_vars(Unselect(n))
    /\ \A n \in Nodes, f \in Flags : WF_vars(TimerExpire(n, f))

\* Sessions one after the other, for as long as the redial wait is in the
\* range of a duration: the waitFactor is followed to the end of its growth.
Reconnect(n) ==
    /\ hist[n] # <<>> => hist[n][1].waitFactor <= MaxDuration
    /\ Register(n)

\* ---- the goroutine of start() and the dial iterator after Close() ----
\* The ten minutes of time.After are not counted on the clock of the model: the
\* timer may fire at any moment at which the goroutine waits in the select.

\* the timer fires while quit is open: the select takes the timer's case
PersistTimer ==
    /\ task = "select"
    /\ phase = "running"
    /\ task' = "persist"
    /\ last' = Op("persistTimer")
    /\ UNCHANGED <<state, timer, hist, conn, db, now, timeout, vtNodes, vtValue, peers, mixK, mixQ,
                   demote, phase, runs, clockOffset, dbClock, trusted, calc, gt, ns, nh>>

\* persistClock() in the goroutine, then the next round of the loop
PersistTask ==
    /\ task = "persist"
    /\ dbClock' = persistClock
    /\ task' = "select"
    /\ last' = Op("persistTask")
    /\ UNCHANGED <<state, timer, hist, conn, db, now, timeout, vtNodes, vtValue, peers, mixK, mixQ,
                   demote, phase, runs, clockOffset, trusted, calc, gt, ns, nh>>

\* the select takes the case of the closed quit channel: the goroutine returns
PersistExit ==
    /\ task = "select"
    /\ phase \in {"closed", "off"}
    /\ task' = "done"
    /\ last' = Op("persistExit")
    /\ UNCHANGED <<state, timer, hist, conn, db, now, timeout, vtNodes, vtValue, peers, mixK, mixQ,
                   demote, phase, runs, clockOffset, dbClock, trusted, calc, gt, ns, nh>>

\* dialIterator.Next() after Close(): false, no node
DialNextClosed ==
    /\ phase \in {"closed", "off"}
    /\ last.op # "nextClosed"
    /\ last' = Op("nextClosed")
    /\ UNCHANGED <<state, timer, hist, conn, db, now, timeout, vtNodes, vtValue, peers, mixK, mixQ,
                   demote, task, phase, runs, clockOffset, dbClock, trusted, calc, gt, ns, nh>>

\* one life of the process with the goroutine of start()
NextShutdown ==
    \/ Next
    \/ PersistTimer
    \/ PersistTask
    \/ PersistExit
    \/ DialNextClosed

SpecShutdown == Init /\ [][NextShutdown]_vars

\* the goroutine is scheduled in the end
FairShutdownSpec == SpecShutdown /\ WF_vars(PersistTask) /\ WF_vars(PersistExit)

\* dialIterator.Next() before start(): the mixer has no source, no node comes
DialNextBlocked ==
    /\ phase = "new"
    /\ last.op # "nextBlocked"
    /\ last' = Op("nextBlocked")
    /\ UNCHANGED <<state, timer, hist, conn, db, now, timeout, vtNodes, vtValue, peers, mixK, mixQ,
                   demote, task, phase, runs, clockOffset, dbClock, trusted, calc, gt, ns, nh>>

\* the lives of the process, the dial iterator read before start() as well
NextPreStart ==
    \/ NextRestart
    \/ DialNextBlocked

SpecPreStart == Init /\ [][NextPreStart]_vars

\* ---- knownSelectWeight in two steps ----
\* calculateNode holds no lock from its GetField to its SetField: a call of the
\* weight callback by the selector is split here at that point, the calls of
\* the other goroutines (timers, peers, stop) run in between.

\* the selector calls the weight callback on a candidate: GetField
KnownWeightRead(n) ==
    /\ SourcesAdded
    /\ calc = <<>>
    /\ Selectable(n, sfHasValue)
    /\ n \in vtNodes
    /\ calc' = <<[node |-> n, h |-> hist[n]]>>
    /\ last' = Op("knownRead")
    /\ UNCHANGED <<state, timer, hist, conn, db, now, timeout, vtNodes, vtValue, peers, mixK, mixQ,
                   demote, task, phase, runs, clockOffset, dbClock, trusted, gt, ns, nh>>

\* the rest of the call: the weight from the copy read before, SetField of
\* that copy when storeField is set, the goroutine below the threshold
KnownWeightWrite ==
    /\ calc # <<>>
    /\ phase # "off"
    /\ LET n == calc[1].node
           stale == [Machine EXCEPT !.hist[n] = calc[1].h]
       IN  \E ovf \in ConversionOutcomes(n) :
             LET r == calculateNode(stale, n, FALSE, FALSE, ovf)
             IN  /\ Apply(IF r.M = stale THEN Machine ELSE SetHistory(Machine, n, r.h))
                 /\ demote' = IF r.wt < nodeWeightThreshold THEN demote \cup {n} ELSE demote
    /\ calc' = <<>>
    /\ last' = Op("knownWrite")
    /\ UNCHANGED <<now, timeout, vtNodes, vtValue, peers, mixK, mixQ, task, phase, runs,
                   clockOffset, dbClock, trusted, gt, ns, nh>>

\* one life of the process, the weight callback in two steps
NextRace ==
    \/ Next
    \/ \E n \in Nodes : KnownWeightRead(n)
    \/ KnownWeightWrite

SpecRace == Init /\ [][NextRace]_vars

\* ---- a session that serves more than MaxValue ----

MaxLongValue == 3

\* the value of the statistics grows beyond MaxValue during one session
LongServe(n) ==
    /\ n \in peers
    /\ phase = "running"
    /\ vtValue[n] >= MaxValue
    /\ vtValue[n] < MaxLongValue
    /\ vtValue' = [vtValue EXCEPT ![n] = @ + 1]
    /\ last' = Op("serve")
    /\ UNCHANGED <<state, timer, hist, conn, db, now, timeout, vtNodes, peers, mixK, mixQ, demote, phase, runs, clockOffset, dbClock, trusted, task, calc, gt, ns, nh>>

\* one life of the process with such sessions
NextDemote ==
    \/ Next
    \/ \E n \in Nodes : LongServe(n)

SpecDemote == Init /\ [][NextDemote]_vars

\* ---- restarts of the machine ----

\* the process has ended and the monotonic clock starts again at any value
Reboot ==
    /\ phase = "off"
    /\ runs < MaxRuns
    /\ \E t \in 0..MaxClock : t # now /\ now' = t
    /\ task' = "none"
    /\ last' = Op("reboot")
    /\ UNCHANGED <<state, timer, hist, conn, db, timeout, vtNodes, vtValue, peers, mixK, mixQ,
                   demote, phase, runs, clockOffset, dbClock, trusted, calc, gt, ns, nh>>

\* the lives of the process with the goroutine of start() and restarting
\* clocks; the nodes come from sessions alone
NextClock ==
    \/ Start
    \/ \E n \in Nodes : RegisterPeer(n)
    \/ \E n \in Nodes : UnregisterPeer(n)
    \/ \E n \in Nodes : Serve(n)
    \/ \E n \in Nodes, f \in Flags : TimerExpire(n, f)
    \/ Tick
    \/ Stop
    \/ NsStop
    \/ NsStart
    \/ Reboot
    \/ PersistTimer
    \/ PersistTask
    \/ PersistExit

SpecClock == Init /\ [][NextClock]_vars

NextCalc ==
    \/ Start
    \/ \E n \in Nodes : Reconnect(n)
    \/ \E n \in Nodes : UnregisterPeer(n)
    \/ \E n \in Nodes : Serve(n)

SpecCalc == Init /\ [][NextCalc]_vars

\* Dials and sessions one after the other, for as long as the redial wait is
\* in the range of a duration: discovery offers the node whatever its dial cost
Redial(n) ==
    /\ SourcesAdded
    /\ hist[n] # <<>> => hist[n][1].waitFactor <= MaxDuration
    /\ \E ovf \in ConversionOutcomes(n) : Apply(dialFilter(Machine, n, ovf))
    /\ last' = Op("pullDiscovery")
    /\ UNCHANGED <<now, timeout, vtNodes, vtValue, peers, mixK, mixQ, demote, phase, runs, clockOffset, dbClock, trusted, task, calc, gt, ns, nh>>

NextDial ==
    \/ NextCalc
    \/ \E n \in Nodes : Redial(n)
    \/ \E n \in Nodes, f \in Flags : TimerExpire(n, f)
    \/ Tick

SpecDial == Init /\ [][NextDial]_vars

\* ---- the specification of getTimeout alone ----

GetTimeout ==
    /\ gt' = getTimeout(gt)
    /\ UNCHANGED <<poolvars, ns, nh>>

\* served requests change the response time statistics
StatsChange ==
    /\ \E st \in StatsTimeouts \ {gt.stats} : gt' = [gt EXCEPT !.stats = st]
    /\ UNCHANGED <<poolvars, ns, nh>>

SecondPasses ==
    /\ gt.clock < MaxSeconds
    /\ gt' = [gt EXCEPT !.clock = @ + 1]
    /\ UNCHANGED <<poolvars, ns, nh>>

InitTimeout ==
    /\ InitPool
    /\ trusted = {}
    /\ \E c \in ClockStarts : \E st \in StatsTimeouts : gt = NewTimeout(c, st)
    /\ ns = NewNodeStateMachine(Setup1, <<>>)
    /\ nh = NewField(ZeroField)

NextTimeout ==
    \/ GetTimeout
    \/ StatsChange
    \/ SecondPasses

SpecTimeout == InitTimeout /\ [][NextTimeout]_vars

\* ---- the specification of the NodeStateMachine alone ----

NsmStart ==
    /\ ns.phase = "new"
    /\ ns' = nsmStart(Begin(ns, "Start"))
    /\ UNCHANGED <<poolvars, gt, nh>>

\* the calls of the tests: some bits are set, or some bits are reset
NsmSetState ==
    /\ ns.phase = "running"
    /\ \E set \in {b \in SUBSET Bits(ns.setup) :
                     b = {} \/ ~(b \subseteq UNION {t.mask : t \in ns.timeouts})} :
       \E reset \in (IF set = {} THEN SUBSET Bits(ns.setup) ELSE {{}}) :
           \E tmo \in 0..(IF set = {} THEN 0 ELSE MaxTimeout) :
               ns' = nsmSetState(Begin(ns, "SetState"), set, reset, tmo)
    /\ UNCHANGED <<poolvars, gt, nh>>

\* a call that sets bits the node holds under a timeout, without a timeout or
\* with the longest one, as a caller that makes a timed flag permanent or renews
\* it does
NsmSetStateAgain ==
    /\ ns.phase = "running"
    /\ \E set \in (SUBSET (UNION {t.mask : t \in ns.timeouts})) \ {{}} : \E tmo \in {0, MaxTimeout} :
           ns' = nsmSetState(Begin(ns, "SetStateAgain"), set, {}, tmo)
    /\ UNCHANGED <<poolvars, gt, nh>>

NsmSetField ==
    /\ ns.phase = "running"
    /\ \E i \in FieldIndexes(ns.setup) : \E v \in TestValues :
           ns' = nsmSetField(Begin(ns, "SetField"), i, v)
    /\ UNCHANGED <<poolvars, gt, nh>>

NsmPersist ==
    /\ ns.phase = "running"
    /\ ns' = saveNode(Begin(ns, "Persist"))
    /\ UNCHANGED <<poolvars, gt, nh>>

NsmRun ==
    /\ ns.phase = "running"
    /\ ns' \in nsmRun(Begin(ns, "Run"))
    /\ UNCHANGED <<poolvars, gt, nh>>

NsmStop ==
    /\ ns.phase = "running"
    /\ ns' = nsmStop(Begin(ns, "Stop"))
    /\ UNCHANGED <<poolvars, gt, nh>>

\* the next machine on the same database, under either setup
NsmNew ==
    /\ ns.phase = "stopped"
    /\ \E s \in Setups : ns' = NewNodeStateMachine(s, ns.db)
    /\ UNCHANGED <<poolvars, gt, nh>>

InitNsm ==
    /\ InitPool
    /\ trusted = {}
    /\ gt = NewTimeout(0, minTimeout)
    /\ \E s \in Setups : ns = NewNodeStateMachine(s, <<>>)
    /\ nh = NewField(ZeroField)

NextNsm ==
    \/ NsmStart
    \/ NsmSetState
    \/ NsmSetStateAgain
    \/ NsmSetField
    \/ NsmPersist
    \/ NsmRun
    \/ NsmStop
    \/ NsmNew

SpecNsm == InitNsm /\ [][NextNsm]_vars

\* ---- the machine with a subscriber that calls SetState from its callback ----
InitSub ==
    /\ InitPool
    /\ trusted = {}
    /\ gt = NewTimeout(0, minTimeout)
    /\ ns = NewNodeStateMachine(SetupReentrant, <<>>)
    /\ nh = NewField(ZeroField)

NextSub ==
    \/ NsmStart
    \/ NsmSetState
    \/ NsmSetStateAgain
    \/ NsmRun

SpecSub == InitSub /\ [][NextSub]_vars

\* ---- a nodeHistory saved and loaded ----
EncodeField ==
    /\ nh.op = "new"
    /\ \E e \in sfiNodeHistoryEnc(nh.field) : nh' = [nh EXCEPT !.op = "enc", !.enc = <<e>>]
    /\ UNCHANGED <<poolvars, gt, ns>>

DecodeField ==
    /\ nh.op = "enc"
    /\ nh' = [nh EXCEPT !.op = "dec", !.out = <<sfiNodeHistoryDec(nh.enc[1])>>]
    /\ UNCHANGED <<poolvars, gt, ns>>

InitEnc ==
    /\ InitPool
    /\ trusted = {}
    /\ gt = NewTimeout(0, minTimeout)
    /\ ns = NewNodeStateMachine(Setup1, <<>>)
    /\ \E h \in FieldInputs : nh = NewField(h)

NextEnc ==
    \/ EncodeField
    \/ DecodeField

SpecEnc == InitEnc /\ [][NextEnc]_vars

\* ------------------------------------------------------------------- claims
\* the node a step of the dial iterator yields to the consumer
Pulled(n) ==
    \/ PullDiscovery(n)
    \/ PullKnown /\ mixK = <<n>>
    \/ PullQueue /\ mixQ = <<n>>

\* C1: no node holds selected together with dialed, connected or redialWait.
SelectedExclusive ==
    \A n \in Nodes :
        sfSelected \in state[n] => state[n] \cap {sfDialed, sfConnected, sfRedialWait} = {}

\* C2: no node holds dialed and connected at the same time.
DialedConnectedExclusive ==
    \A n \in Nodes : ~({sfDialed, sfConnected} \subseteq state[n])

\* C3: when the dialed timer of a node that is not connected expires, the node
\* holds redialWait afterwards, and a redialWait set by that step has a timeout
\* of at least minRedialWait.
DialTimeoutSetsRedialWait ==
    [][\A n \in Nodes :
          (TimerExpire(n, sfDialed) /\ sfConnected \notin state[n])
          => /\ sfRedialWait \in state'[n]
             /\ sfRedialWait \notin state[n] => timer'[n][sfRedialWait] >= now + minRedialWait]_vars

\* C4: every redialWait flag is cleared by its timer: a node that holds
\* redialWait has a timer pending for it.
RedialWaitHasTimer ==
    \A n \in Nodes : sfRedialWait \in state[n] => timer[n][sfRedialWait] > 0

\* C5: the dial iterator never yields a node that holds redialWait.
NoPullInRedialWait ==
    [][\A n \in Nodes : Pulled(n) => sfRedialWait \notin state[n]]_vars

\* C6: registerPeer on a node that holds dialed replaces dialed by connected in
\* one transition: no redialWait is set, the history (dial cost) is untouched,
\* no timer stays pending for dialed, and the statistics are snapshotted.
RegisterReplacesDialed ==
    [][\A n \in Nodes :
          (RegisterPeer(n) /\ sfDialed \in state[n])
          => /\ state'[n] = (state[n] \ {sfDialed}) \cup {sfConnected}
             /\ hist'[n] = hist[n]
             /\ timer'[n] = [timer[n] EXCEPT ![sfDialed] = 0]
             /\ conn'[n] = <<vtValue[n]>>]_vars

\* registerPeer came before the dial timer of a dialed node fired
RegisteredWhileDialed ==
    \E n \in Nodes :
        /\ last.op = "registerPeer"
        /\ sfDialed \in last.pre[n] /\ sfRedialWait \notin last.pre[n]
        /\ state[n] \cap SubMask = {sfConnected}
        /\ sfRedialWait \notin state[n]
        /\ conn[n] # <<>>

\* C7: unregisterPeer leaves the node without connectedStats and without
\* connected, with redialWait under the timeout calculateNode(node, false, true)
\* returned, in one transition (the history calculateNode stored is kept); it
\* sets hasValue and saves the node if the returned weight is at least
\* nodeWeightThreshold, and leaves hasValue and the database alone otherwise.
UnregisterEffects ==
    [][\A n \in Nodes :
          UnregisterPeer(n)
          => \E ovf \in ConversionOutcomes(n) :
               LET r == calculateNode(Machine, n, FALSE, TRUE, ovf)
                   promoted == IF r.wt >= nodeWeightThreshold THEN {sfHasValue} ELSE {}
               IN  /\ conn'[n] = <<>>
                   /\ state'[n] = (state[n] \ {sfConnected}) \cup {sfRedialWait} \cup promoted
                   /\ hist'[n] = <<r.h>>
                   /\ timer'[n][sfRedialWait] = IF r.wait > 0 THEN now + r.wait ELSE 0
                   /\ IF r.wt >= nodeWeightThreshold
                      THEN db'[n] = <<[flags |-> {sfHasValue}, hist |-> <<nodeHistoryEnc(r.h)>>]>>
                      ELSE db'[n] = db[n]]_vars

\* unregisterPeer has promoted a connected node to hasValue and saved it
UnregisteredPromoted ==
    \E n \in Nodes :
        /\ last.op = "unregisterPeer"
        /\ sfConnected \in last.pre[n] /\ sfHasValue \notin last.pre[n]
        /\ {sfHasValue, sfRedialWait} \subseteq state[n]
        /\ timer[n][sfRedialWait] > now
        /\ db[n] # <<>>

\* C8: a step that sets hasValue on a node is an unregisterPeer or a stop for
\* which calculateNode returns a weight of at least nodeWeightThreshold.
HasValueOnlyAboveThreshold ==
    [][\A n \in Nodes :
          (sfHasValue \notin state[n] /\ sfHasValue \in state'[n])
          => \/ /\ UnregisterPeer(n)
                /\ \A ovf \in ConversionOutcomes(n) :
                     calculateNode(Machine, n, FALSE, TRUE, ovf).wt >= nodeWeightThreshold
             \/ /\ Stop
                /\ sfConnected \in state[n]
                /\ calculateNode(Machine, n, FALSE, FALSE, MaxDuration).wt >= nodeWeightThreshold]_vars

\* stop() has promoted a connected node to hasValue
StopPromoted ==
    \E n \in Nodes :
        /\ last.op = "stop"
        /\ sfConnected \in last.pre[n] /\ sfHasValue \notin last.pre[n]
        /\ sfHasValue \in state[n]

\* hasValue is neither in the memory nor in the database record of the node
Stripped(n) ==
    /\ sfHasValue \notin state[n]
    /\ db[n] # <<>> => sfHasValue \notin db[n][1].flags

\* C9: a known node whose weight is below nodeWeightThreshold gets weight 0
\* from knownSelectWeight (it is not emitted, the demotion is spawned); the
\* known selector emits only a node whose weight is at least the threshold;
\* and while the machine runs the spawned demotion takes hasValue off the node
\* and off its database record.
KnownSetDemotion ==
    /\ [][\A n \in Nodes :
            KnownSelect(n)
            => LET wt == calculateNode(Machine, n, FALSE, FALSE, MaxDuration).wt
               IN  IF wt < nodeWeightThreshold
                   THEN n \in demote' /\ mixK' = <<>> /\ sfSelected \notin state'[n]
                   ELSE mixK' = <<n>> /\ demote' = demote]_vars
    /\ \A n \in Nodes : (n \in demote) ~> (Stripped(n) \/ phase = "off")

\* the demotion has run on a node that held hasValue
Demoted ==
    \E n \in Nodes :
        /\ last.op = "demote"
        /\ sfHasValue \in last.pre[n]
        /\ Stripped(n)

\* C10: a calculateNode call with remoteDisconnect leaves a waitFactor of at
\* least 1 and returns the wait minRedialWait x waitFactor, at least minRedialWait.
WaitIsFactorTimesMin ==
    [][\A n \in Nodes :
          UnregisterPeer(n)
          => \A ovf \in ConversionOutcomes(n) :
               LET r == calculateNode(Machine, n, FALSE, TRUE, ovf)
               IN  /\ r.h.waitFactor >= 1
                   /\ r.wait = minRedialWait * r.h.waitFactor
                   /\ r.wait >= minRedialWait]_vars

\* C11: for a node with a value-tracker entry the weight calculateNode returns
\* is floor(totalValue x nodeWeightMul / max(totalDialCost, dialCost)), with
\* totalDialCost the decayed dial cost after the increment of the call: the
\* divisor d is at least dialCost and wt * d <= totalValue * nodeWeightMul < (wt + 1) * d.
WeightIsFloor ==
    \A n \in vtNodes : \A fc, rd \in BOOLEAN : \A ovf \in ConversionOutcomes(n) :
        LET r == calculateNode(Machine, n, fc, rd, ovf)
            cost == EvValue(r.h.dialCost, logOffset)
            d == IF cost > dialCost THEN cost ELSE dialCost
        IN  /\ d >= dialCost
            /\ (fc \/ rd) => cost >= dialCost
            /\ r.wt * d <= r.h.totalValue * nodeWeightMul
            /\ r.h.totalValue * nodeWeightMul < (r.wt + 1) * d

\* calculateNode has returned a weight that is no whole quotient, for a node
\* whose dial cost has grown past dialCost
WeightCutOff ==
    \E n \in vtNodes :
        /\ last.op \in {"unregisterPeer", "knownZero", "knownEmit", "stop"}
        /\ hist[n] # <<>>
        /\ hist[n][1].totalValue > 0
        /\ EvValue(hist[n][1].dialCost, logOffset) > dialCost
        /\ (hist[n][1].totalValue * nodeWeightMul) % EvValue(hist[n][1].dialCost, logOffset) # 0

\* C12: a getTimeout call made less than timeoutRefresh after the timeout was
\* recomputed returns the value of the call before it and does not read the
\* statistics again, whatever the clock reads and whatever happened to the
\* statistics in between.
RefreshAtMostOncePerPeriod ==
    [][(GetTimeout /\ gt.calls /\ gt.clock - gt.at < timeoutRefresh)
          => (gt'.ret = gt.ret /\ ~gt'.read)]_vars

\* the same for recomputations made at a clock reading other than 0
RefreshAtMostOncePerPeriodAfterZero ==
    [][(GetTimeout /\ gt.calls /\ gt.at # 0 /\ gt.clock - gt.at < timeoutRefresh)
          => (gt'.ret = gt.ret /\ ~gt'.read)]_vars

\* a call within the period after a recomputation at a later clock reading
\* kept the old value although the statistics give another one
CachedTimeoutReturned ==
    /\ gt.calls
    /\ gt.at # 0
    /\ gt.clock > gt.at
    /\ gt.clock - gt.at < timeoutRefresh
    /\ ~gt.read
    /\ gt.ret # Max(minTimeout, gt.stats)

\* C13: SetField on a node without flags returns no error, stores nothing
\* (GetField returns nil for every field afterwards) and calls no subscriber;
\* on a node with a flag, SetField with a value of the field's type returns no
\* error and GetField returns that value afterwards.
FieldRequiresState ==
    [][(ns.phase = "running" /\ ns'.op = "SetField")
          => \A i \in FieldIndexes(ns.setup) : \A v \in TestValues :
                (ns' = nsmSetField(Begin(ns, "SetField"), i, v))
                => IF ns.state = {}
                   THEN /\ ns'.err = "nil"
                        /\ \A j \in FieldIndexes(ns.setup) : GetField(ns', j) = Nil
                        /\ ns'.events = <<>>
                   ELSE (v.type = FieldType[ns.setup.fields[i]])
                        => (ns'.err = "nil" /\ GetField(ns', i) = v)]_vars

\* SetField was called on the node while it had no flag
SetFieldDiscarded ==
    /\ ns.phase = "running"
    /\ ns.op = "SetField"
    /\ ns.state = {}
    /\ ns.err = "nil"
    /\ \A j \in FieldIndexes(ns.setup) : GetField(ns, j) = Nil

LastFlagUnsetsFields ==
    [][(ns.phase = "running" /\ ns'.phase = "running" /\ ns.state # {} /\ ns'.state = {})
          => \A i \in FieldIndexes(ns.setup) :
                LET calls == {k \in DOMAIN ns'.events :
                                 ns'.events[k].kind = "field"
                                 /\ ns'.events[k].field = ns.setup.fields[i]}
                IN  /\ GetField(ns', i) = Nil
                    /\ IF GetField(ns, i) = Nil THEN calls = {}
                       ELSE /\ Cardinality(calls) = 1
                            /\ \A k \in calls :
                                  ns'.events[k] = FieldEvent(ns.setup.fields[i], {}, GetField(ns, i), Nil)]_vars

\* a timeout has taken the last flag of a node that held a persistent and a
\* non-persistent field
FieldsUnsetByTimeout ==
    /\ ns.op = "Run"
    /\ ns.state = {}
    /\ \E k \in DOMAIN ns.events :
          ns.events[k].kind = "field" /\ ns.events[k].field = "field-2" /\ ns.events[k].new = Nil
    /\ \E k \in DOMAIN ns.events :
          ns.events[k].kind = "field" /\ ns.events[k].field = "field-0" /\ ns.events[k].new = Nil
    /\ \A i \in FieldIndexes(ns.setup) : GetField(ns, i) = Nil

IsStateEvent(e) == e.kind = "state"

\* C16: a SetState calls the state subscription of mask M once when the state
\* before and the state after differ in a bit of M, with the two states
\* restricted to M, and does not call it otherwise (only bits outside M
\* changed, or the state is as it was).
SubscriptionFollowsMask ==
    [][(ns.phase = "running" /\ ns'.op = "SetState")
          => LET sub == SubscribedMask(ns.setup)
             IN  SelectSeq(ns'.events, IsStateEvent)
                   = IF ns.state \cap sub # ns'.state \cap sub
                     THEN <<StateEvent(ns.state \cap sub, ns'.state \cap sub)>>
                     ELSE <<>>]_vars

\* a SetState has changed a bit of the mask on a node that also holds a flag
\* outside the mask: the subscriber got the states without that flag
MaskedChangeDelivered ==
    /\ ns.op = "SetState"
    /\ ~(ns.state \subseteq SubscribedMask(ns.setup))
    /\ \E k \in DOMAIN ns.events :
          /\ ns.events[k].kind = "state"
          /\ ns.events[k].new = ns.state \cap SubscribedMask(ns.setup)
          /\ ns.events[k].new # {}
          /\ ns.events[k].old # {}

\* C17: a SetState that changes the state and sets bits with a timeout T > 0
\* leaves one pending timeout for all the bits it set, T clock steps ahead;
\* a clock step leaves the bits of a timeout that is not yet due set, one step
\* nearer to their expiry, and clears the bits of a timeout that is due, all
\* in one transition: the state subscriber gets one call per expired timeout
\* that holds a bit of its mask, from the state with all of those bits to the
\* state without them.
TimeoutClearsTogether ==
    /\ [][(ns.phase = "running" /\ ns'.op = "SetState" /\ ns'.state # ns.state)
            => \A set \in (SUBSET ns'.state) \ {{}} : \A tmo \in 1..MaxTimeout :
                  (ns' = nsmSetState(Begin(ns, "SetState"), set, ns.state \ ns'.state, tmo))
                  => (set \subseteq ns'.state /\ [mask |-> set, left |-> tmo] \in ns'.timeouts)]_vars
    /\ [][(ns.phase = "running" /\ ns'.op = "Run")
            => LET due == {t \in ns.timeouts : t.left = 1}
                   sub == SubscribedMask(ns.setup)
                   calls == SelectSeq(ns'.events, IsStateEvent)
               IN  /\ ns'.state = ns.state \ UNION {t.mask : t \in due}
                   /\ \A t \in ns.timeouts \ due :
                         /\ t.mask \subseteq ns'.state
                         /\ [mask |-> t.mask, left |-> t.left - 1] \in ns'.timeouts
                   /\ Len(calls) = Cardinality({t \in due : t.mask \cap sub # {}})
                   /\ \A k \in DOMAIN calls :
                         \E t \in due : /\ calls[k].old \ calls[k].new = t.mask \cap sub
                                        /\ calls[k].new = calls[k].old \ t.mask]_vars

\* the timeout of flags 0 and 1, set by one call, has expired: the subscriber
\* was called once, with both flags before and none after
BothFlagsExpired ==
    /\ ns.op = "Run"
    /\ SelectSeq(ns.events, IsStateEvent)
          = <<StateEvent(StateMask(ns.setup, {"flag-0", "flag-1"}), {})>>

\* the names of the persistent flags the node holds without a pending timeout
SavedFlagNames(m) == {m.setup.flags[i] : i \in (m.state \cap SaveMask(m.setup)) \ TimedBits(m)}

\* the machine constructed with setup s on the database of m, after its Start
Restarted(m, s) == nsmStart(Begin(NewNodeStateMachine(s, m.db), "Start"))

IsSaveEvent(e) == e.kind = "save"

\* C19: the node is written only by Persist and by Stop, at most once per
\* call; a Persist or a Stop on a node whose record differs from the stored
\* one (unsaved persistent data) writes it once; a node that has not changed
\* since it was written is not written again; a node whose flags are all
\* non-persistent or timed is not written, and no flag of it is set in a
\* machine started on the database afterwards.
SavedWhenUnsaved ==
    [][LET saves == SelectSeq(ns'.events, IsSaveEvent)
           rec == nsmSavedRecord(ns)
       IN  IF ns.phase = "running" /\ ns'.op \in {"Persist", "Stop"}
           THEN /\ Len(saves) <= 1
                /\ (rec # <<>> /\ rec # ns.db) => (saves = <<SaveEvent(rec)>> /\ ns'.db = rec)
                /\ ~ns.dirty => (saves = <<>> /\ ns'.db = ns.db)
                /\ SavedFlagNames(ns) = {}
                     => /\ saves = <<>>
                        /\ ns'.op = "Stop" => \A s \in Setups : Restarted(ns', s).state = {}
           ELSE saves = <<>> /\ ns'.db = ns.db]_vars

\* Persist has written a node that holds a persistent flag, a timed flag and
\* a persistent field: the record has the flag without timeout and the field
PersistSavedOnce ==
    /\ ns.op = "Persist"
    /\ ns.events = <<SaveEvent(ns.db)>>
    /\ ns.db # <<>>
    /\ ns.db[1].fields # {}
    /\ ns.timeouts # {}
    /\ ~ns.dirty

IsFieldEvent(e) == e.kind = "field"

\* C20: the field subscribers are called in Stop once per field that holds a
\* value, with (offlineState, the value, nil); in Start once per field the
\* database restores, with (offlineState, nil, the restored value); and in a
\* SetField that changes a field once, for that field, with (the state of the
\* node, the old value, the new value); Start, Stop and SetField make no other
\* field callback.
LifecycleFieldEvents ==
    [][LET calls == SelectSeq(ns'.events, IsFieldEvent)
           names == ns.setup.fields
           Held(m) == {i \in FieldIndexes(ns.setup) : GetField(m, i) # Nil}
           Calls(idx, st, old, new) ==
               /\ Len(calls) = Cardinality(idx)
               /\ \A i \in idx : \E k \in DOMAIN calls :
                     calls[k] = FieldEvent(names[i], st, GetField(old, i), GetField(new, i))
       IN  /\ (ns.phase = "running" /\ ns'.op = "Stop")
                => /\ Calls(Held(ns), offlineState, ns, ns')
                   /\ Held(ns') = {}
           /\ (ns.phase = "new" /\ ns'.op = "Start")
                => /\ Calls(Held(ns'), offlineState, ns, ns')
                   /\ Held(ns) = {}
                   /\ ns.db # <<>>
                        => \A i \in FieldIndexes(ns.setup) :
                              GetField(ns', i)
                                = IF \E e \in ns.db[1].fields : e.name = names[i]
                                  THEN FieldDec(FieldType[names[i]],
                                                (CHOOSE e \in ns.db[1].fields : e.name = names[i]).enc)
                                  ELSE Nil
           /\ (ns.phase = "running" /\ ns'.op = "SetField")
                => Calls({i \in FieldIndexes(ns.setup) : GetField(ns', i) # GetField(ns, i)},
                         ns.state, ns, ns')]_vars

\* Start has restored two fields and called their subscribers
RestoredFieldsAnnounced ==
    /\ ns.op = "Start"
    /\ Len(SelectSeq(ns.events, IsFieldEvent)) = 2
    /\ \A k \in DOMAIN ns.events :
          /\ ns.events[k].save = offlineState
          /\ ns.events[k].old = Nil
          /\ ns.events[k].new = GetField(ns, FieldIndex(ns.setup, ns.events[k].field))
          /\ ns.events[k].new # Nil

\* start() sets redialWait on every restored hasValue node whose saved waitUntil
\* is later than the saved clock, with the timeout waitUntil - saved clock, and on
\* no other node.
StartSetsRedialWait ==
    [][(phase = "new" /\ phase' = "running")
         => \A n \in Nodes :
              LET clockStart == IF dbClock = <<>> THEN 0 ELSE dbClock[1]
              IN  IF /\ sfHasValue \in state[n]
                     /\ hist[n] # <<>>
                     /\ hist[n][1].waitUntil > clockStart
                  THEN /\ sfRedialWait \in state'[n]
                       /\ timer'[n][sfRedialWait] = now + (hist[n][1].waitUntil - clockStart)
                  ELSE sfRedialWait \notin state'[n]]_vars

\* a second life of the pool has started later than the first one stopped, and
\* a restored node waits for the rest of its redial wait
WaitRestored ==
    \E n \in Nodes :
        /\ last.op = "start"
        /\ runs >= 1
        /\ clockOffset # 0
        /\ {sfHasValue, sfRedialWait} \subseteq state[n]
        /\ timer[n][sfRedialWait] > now

\* C21: start() sets redialWait on every restored hasValue node whose saved
\* waitUntil is later than the saved clock, with the timeout waitUntil - saved
\* clock, and on no other node; and a node that stop() leaves with hasValue and
\* a redial wait R still pending has the waitUntil in its history that makes the
\* next start() grant R: waitUntil - saved clock = R.
RedialWaitResumed ==
    /\ StartSetsRedialWait
    /\ [](phase = "closed"
            => \A n \in Nodes :
                 (/\ {sfHasValue, sfRedialWait} \subseteq state[n]
                  /\ timer[n][sfRedialWait] > now)
                 => /\ hist[n] # <<>>
                    /\ hist[n][1].waitUntil - dbClock[1] = timer[n][sfRedialWait] - now)

\* C22: stop() leaves every connected node whose recomputed weight is at least
\* nodeWeightThreshold with hasValue, in the memory and in its database record;
\* a connected node below the threshold gets no hasValue it did not hold; and
\* the recomputation adds no dial cost and leaves the waitFactor as it was.
StopPromotesConnected ==
    [][(phase = "running" /\ phase' = "closed")
         => \A n \in Nodes :
              sfConnected \in state[n]
              => LET h == IF hist[n] = <<>> THEN ZeroHistory ELSE hist[n][1]
                     cost == Max(EvValue(h.dialCost, logOffset), dialCost)
                     value == IF hist'[n] = <<>> THEN h.totalValue ELSE hist'[n][1].totalValue
                     wt == NodeWeight(value, cost)
                 IN  /\ hist'[n] # <<>>
                       => /\ hist'[n][1].dialCost = h.dialCost
                          /\ hist'[n][1].waitFactor = h.waitFactor
                          /\ hist'[n][1].waitUntil = h.waitUntil
                     /\ IF wt >= nodeWeightThreshold
                        THEN /\ sfHasValue \in state'[n]
                             /\ db'[n] # <<>>
                             /\ sfHasValue \in db'[n][1].flags
                             /\ db'[n][1].hist = <<nodeHistoryEnc(hist'[n][1])>>
                        ELSE /\ sfHasValue \in state'[n] <=> sfHasValue \in state[n]
                             /\ db'[n] = db[n]]_vars

\* stop() has promoted and saved a connected node with a dial cost and a
\* waitFactor in its history
StopSavedHistory ==
    \E n \in Nodes :
        /\ last.op = "stop"
        /\ sfConnected \in last.pre[n] /\ sfHasValue \notin last.pre[n]
        /\ sfHasValue \in state[n]
        /\ db[n] # <<>> /\ db[n][1].hist # <<>>
        /\ nodeHistoryDec(db[n][1].hist[1]).waitFactor >= 1
        /\ EvValue(nodeHistoryDec(db[n][1].hist[1]).dialCost, logOffset) >= dialCost

\* the trusted node is with a peer or on its way to one
Yielded(n) == state[n] \cap {sfDialed, sfConnected} # {}

\* the redial wait of the node ends after the last clock reading of the model
WaitsPastHorizon(n) == sfRedialWait \in state[n] /\ timer[n][sfRedialWait] > MaxClock

\* C23: while the pool runs every trusted node holds alwaysConnect, and a
\* trusted node that is neither dialed nor connected is yielded by the dial
\* iterator again (it gets dialed) unless the pool is stopped first or its redial
\* wait outlasts the clock of the model.
TrustedAlwaysDialable ==
    /\ [](phase = "running" => \A n \in trusted : sfAlwaysConnect \in state[n])
    /\ \A n \in Nodes :
          (phase = "running" /\ n \in trusted /\ ~Yielded(n))
          ~> (Yielded(n) \/ phase # "running" \/ WaitsPastHorizon(n))

\* C24: a SetState cancels the pending expiry of every bit it touches: after a
\* call that sets bits the node holds already the only timeout that holds a bit
\* of the call is the one the call scheduled (none when the call has no
\* timeout); a flag has one expiry at most and a timeout holds set flags only
\* (the timeout of a cleared flag is gone: it changes no state and calls no
\* subscriber); and a clock step on which no timeout is due changes no state and
\* calls no subscriber.
LaterSetStateCancels ==
    /\ [][(ns.phase = "running" /\ ns'.op = "SetStateAgain")
            => \A set \in (SUBSET ns'.state) \ {{}} : \A tmo \in 0..MaxTimeout :
                  (/\ ns'.timeouts = Scheduled(ns.timeouts, set, {}, tmo)
                   /\ ns' = nsmSetState(Begin(ns, ns'.op), set, {}, tmo))
                  => /\ ns'.state = ns.state /\ ns'.events = <<>>
                     /\ \A t \in ns'.timeouts :
                           t.mask \cap set # {} => (tmo > 0 /\ t = [mask |-> set, left |-> tmo])]_vars
    /\ [](\A t \in ns.timeouts :
             /\ t.mask # {} /\ t.mask \subseteq ns.state /\ t.left > 0
             /\ \A u \in ns.timeouts : u # t => u.mask \cap t.mask = {})
    /\ [][(ns.phase = "running" /\ ns'.op = "Run" /\ \A t \in ns.timeouts : t.left # 1)
            => (ns'.state = ns.state /\ ns'.events = <<>>)]_vars

\* a flag set with a timeout has been set again without one: no timeout is
\* pending for it any more
TimeoutCancelledBySetAgain ==
    /\ ns.op = "SetStateAgain"
    /\ ns.state # {}
    /\ ns.timeouts = {}

\* C25: the state subscriber sees the changes of an operation one after the
\* other, from the state before the operation to the state after it, none
\* skipped and none merged: each callback starts from the state the one before
\* ended with (restricted to the mask) and changes it; and the change a
\* subscriber makes from its callback is delivered after the change that caused
\* it, within the same operation.
CallbacksInOneOrder ==
    [][(ns.phase = "running" /\ ns'.op \in {"SetState", "SetStateAgain", "Run"})
         => LET sub == SubscribedMask(ns.setup)
                calls == SelectSeq(ns'.events, IsStateEvent)
                from(k) == IF k = 1 THEN ns.state \cap sub ELSE calls[k - 1].new
                f0 == StateMask(ns.setup, {"flag-0"})
                f1 == StateMask(ns.setup, {"flag-1"})
            IN  /\ \A k \in DOMAIN calls : calls[k].old = from(k) /\ calls[k].new # calls[k].old
                /\ from(Len(calls) + 1) = ns'.state \cap sub
                /\ \A k \in DOMAIN calls :
                      (calls[k].old = f0 /\ calls[k].new = {})
                      => (k < Len(calls) /\ calls[k + 1] = StateEvent({}, f1))]_vars

\* a timeout has cleared flag-0, the subscriber has set flag-1 from its callback:
\* the recorded subscriber got the two changes in that order
NestedChangeDelivered ==
    /\ ns.op = "Run"
    /\ SelectSeq(ns.events, IsStateEvent)
         = <<StateEvent(StateMask(ns.setup, {"flag-0"}), {}),
             StateEvent({}, StateMask(ns.setup, {"flag-1"}))>>

\* a failed dial: the dialed timer expires on a node that is not connected, has
\* a value-tracker entry and keeps its history (it holds another flag)
FailedDial(n) ==
    /\ TimerExpire(n, sfDialed)
    /\ state[n] \cap SubMask = {sfDialed}
    /\ state[n] # {sfDialed}
    /\ n \in vtNodes

\* the waitFactor a backoff without the cap leaves
Doubled(h) == redialWaitStep * Max(h.waitFactor, 1)

\* the waitFactor doubles (factors in the range of a duration are followed)
FailedDialDoubles ==
    [][\A n \in Nodes :
          FailedDial(n)
          => LET h == IF hist[n] = <<>> THEN ZeroHistory ELSE hist[n][1]
             IN  h.waitFactor <= MaxDuration
                 => hist'[n] # <<>> /\ hist'[n][1].waitFactor = Doubled(h)]_vars

\* the cap of the waitFactor needs a session with a positive value
CapNeedsSessionValue ==
    [][\A n \in Nodes :
          UnregisterPeer(n)
          => LET h == IF hist[n] = <<>> THEN ZeroHistory ELSE hist[n][1]
             IN  (h.waitFactor <= MaxDuration /\ hist'[n] # <<>> /\ hist'[n][1].waitFactor # Doubled(h))
                 => (conn[n] # <<>> /\ vtValue[n] - conn[n][1] > 0)]_vars

\* C26: a failed dial (no connection, no session value) leaves the waitFactor
\* 2 x max(old waitFactor, 1); the cap a/b applies only after a session with a
\* positive value; and the wait of a failed dial is minRedialWait x the new
\* waitFactor, so that failed dials in a row wait 20 s, 40 s, 80 s, and so on.
FailedDialBackoff ==
    /\ FailedDialDoubles
    /\ CapNeedsSessionValue
    /\ [][\A n \in Nodes :
            FailedDial(n)
            => /\ hist'[n] # <<>>
               /\ sfRedialWait \in state'[n]
               /\ timer'[n][sfRedialWait] = now + minRedialWait * hist'[n][1].waitFactor]_vars

\* a second failed dial in a row: the wait is 40 s
SecondFailedDial ==
    \E n \in Nodes :
        /\ last.op = "timer"
        /\ sfDialed \in last.pre[n]
        /\ hist[n] # <<>> /\ hist[n][1].waitFactor = 4
        /\ timer[n][sfRedialWait] = now + 4 * minRedialWait

\* C27: calculateNode on a node without a value-tracker entry returns (0, 0) and
\* writes nothing, whatever failedConnection and remoteDisconnect are; so a dial
\* timeout on such a node leaves its history and its database record as they
\* were and sets redialWait with the timeout 0 (no timer).
NoEntryNothingWritten ==
    /\ [](\A n \in Nodes \ vtNodes : \A fc, rd \in BOOLEAN : \A ovf \in OverflowOutcomes :
             LET r == calculateNode(Machine, n, fc, rd, ovf)
             IN  r.wt = 0 /\ r.wait = 0 /\ r.M = Machine)
    /\ [][\A n \in Nodes \ vtNodes :
            (TimerExpire(n, sfDialed) /\ state[n] \cap SubMask = {sfDialed})
            => /\ hist'[n] = IF state[n] = {sfDialed} THEN <<>> ELSE hist[n]
               /\ db' = db
               /\ sfRedialWait \in state'[n]
               /\ timer'[n][sfRedialWait] = 0]_vars

\* a dial of a node without a value-tracker entry has timed out; the node holds
\* another flag, so a history would have been kept
UntrackedDialFailed ==
    \E n \in Nodes \ vtNodes :
        /\ last.op = "timer"
        /\ sfDialed \in last.pre[n] /\ sfConnected \notin last.pre[n]
        /\ last.pre[n] # {sfDialed}
        /\ sfRedialWait \in state[n]
        /\ hist[n] = <<>>

\* floor(w * 256) / 256
In256ths(w) == LET f == FloorScaled(w, 8) IN Norm(f.m, f.e - 8)

\* the decoded history is the encoded one with the waitFactor cut to 256ths and
\* without totalValue and lastTimeout
RoundTrip(h, out) ==
    /\ out.dialCost = h.dialCost
    /\ out.waitUntil = h.waitUntil
    /\ out.waitFactor = In256ths(h.waitFactor)
    /\ (h.waitFactor.m = 1 /\ h.waitFactor.e >= 0) => out.waitFactor = h.waitFactor
    /\ out.totalValue = 0
    /\ out.lastTimeout = 0

\* the round trip of the histories whose waitFactor is less than 2^56
HistoryRoundTripInRange ==
    (nh.op = "dec" /\ FitsUint64(FloorScaled(nh.field.waitFactor, 8))) => RoundTrip(nh.field, nh.out[1])

\* a waitFactor with a fraction finer than 1/256 has been saved and loaded
FractionCut ==
    /\ nh.op = "dec"
    /\ nh.field.waitFactor = [m |-> 3, e |-> -9]
    /\ nh.out[1].waitFactor = [m |-> 1, e |-> -8]
    /\ nh.field.waitUntil < 0

\* C28: a nodeHistory encoded and decoded has its dialCost and its waitUntil
\* unchanged, the waitFactor floor(waitFactor x 256) / 256, which is the
\* waitFactor itself when it is a power of two from 1 on, and totalValue and
\* lastTimeout zero.
HistoryRoundTrip ==
    nh.op = "dec" => RoundTrip(nh.field, nh.out[1])


\* ---- C29: what the weighted selector emits ----

\* the weights knownSelectWeight can return for node n in the current state
WeightAtEmission(n) == {knownSelectWeight(Machine, n, ovf).wt : ovf \in ConversionOutcomes(n)}

\* the known selector has just emitted node n
KnownEmitted(n) == last'.op = "knownEmit" /\ mixK' = <<n>>

\* C29: the weighted selector emits a node only when, at the emission, the node
\* has hasValue (the include mask), has none of selected, dialed, connected and
\* redialWait (the exclude mask) and a weight above zero; the emitted node has
\* selected afterwards, so that it is not emitted again before selected is cleared
SelectorEmitsCandidates ==
    [][\A n \in Nodes : KnownEmitted(n) =>
          /\ sfHasValue \in state[n]
          /\ state[n] \cap {sfSelected, sfDialed, sfConnected, sfRedialWait} = {}
          /\ \E w \in WeightAtEmission(n) : w > 0
          /\ sfSelected \in state'[n]]_vars

\* a node that was dialed and failed before is emitted once more, selected set
EmittedAgain ==
    /\ last.op = "knownEmit"
    /\ \E n \in Nodes :
        /\ mixK = <<n>>
        /\ sfSelected \in state[n]
        /\ sfSelected \notin last.pre[n]
        /\ hist[n] # <<>>
        /\ EvValue(hist[n][1].dialCost, logOffset) > 0


\* ---- C30: shutdown ----

Closed == phase \in {"closed", "off"}

\* after Close() the dial iterator returns no node
NextReturnsClosed ==
    [][Closed => last'.op \notin {"pullDiscovery", "pullKnown", "pullQueue"}]_vars

\* once quit is closed the goroutine of start() returns
PersistTaskExits == (Closed /\ task # "none") ~> (task \in {"done", "none"})

\* C30: after stop() the dial iterator returns no node any more, and no
\* background task of the pool runs or writes the clock
ShutdownStopsTasks ==
    [][Closed => /\ last'.op \notin {"pullDiscovery", "pullKnown", "pullQueue"}
                 /\ last'.op \notin {"persistTask", "demote"}
                 /\ dbClock' = dbClock]_vars


\* ---- C31: nothing is dialed before start() ----

\* C31: before start() the dial iterator yields no node: no source produces a
\* candidate, no node is handed to the mixer, no dialed or selected flag is set
NoCandidateBeforeStart ==
    [][phase = "new" =>
          /\ last'.op \notin {"pullDiscovery", "pullKnown", "pullQueue", "knownEmit", "knownZero", "queueEmit"}
          /\ mixK' = <<>> /\ mixQ' = <<>>
          /\ \A n \in Nodes : state'[n] \cap {sfDialed, sfSelected} = {}]_vars

\* the dial iterator is read before start() while a known node is loaded
ReadBeforeStart ==
    /\ phase = "new"
    /\ last.op = "nextBlocked"
    /\ \E n \in Nodes : Selectable(n, sfHasValue)


\* ---- C32: the history after a dial timeout ----

\* the dialed timer of a node with a value-tracker entry expires, no connection
DialTimedOut(n) ==
    /\ TimerExpire(n, sfDialed)
    /\ state[n] \cap SubMask = {sfDialed}
    /\ n \in vtNodes

\* the stored history of n after the step is the one before it with the dial
\* cost added, the waitFactor doubled and waitUntil set (factors in the range
\* of a duration are followed)
HistoryUpdated(n) ==
    LET h == IF hist[n] = <<>> THEN ZeroHistory ELSE hist[n][1]
    IN  h.waitFactor <= MaxDuration \div 2
        => /\ hist'[n] # <<>>
           /\ EvValue(hist'[n][1].dialCost, logOffset) = EvValue(h.dialCost, logOffset) + dialCost
           /\ hist'[n][1].waitFactor = Doubled(h)
           /\ hist'[n][1].waitUntil = now + clockOffset + minRedialWait * Doubled(h)

\* the history is updated when the node holds another flag besides dialed
DialTimeoutRecordedBesideFlag ==
    [][\A n \in Nodes : (DialTimedOut(n) /\ state[n] # {sfDialed}) => HistoryUpdated(n)]_vars

\* C32: after the dial timeout of a node with a value-tracker entry the stored
\* nodeHistory has the dial cost raised by 10000, the waitFactor doubled and
\* waitUntil set, also when dialed was the only flag of the node
DialTimeoutRecorded ==
    [][\A n \in Nodes : DialTimedOut(n) => HistoryUpdated(n)]_vars


\* ---- C33: no update of the history is lost ----

\* the fields of the history a call with failedConnection = remoteDisconnect =
\* false never changes
BackoffFields(h) == <<h.dialCost, h.waitFactor, h.waitUntil>>

\* C33: no write of calculateNode overwrites the dial cost, the waitFactor or
\* the waitUntil another call has stored in the meantime: the write of
\* knownSelectWeight leaves these three fields of the stored history as they are
NoLostUpdate ==
    [][last'.op = "knownWrite"
       => \A n \in Nodes : (hist[n] # <<>> /\ hist'[n] # <<>>)
                           => BackoffFields(hist'[n][1]) = BackoffFields(hist[n][1])]_vars


\* ---- C34: the demotion and a node that deserves hasValue ----

\* unregisterPeer or stop() has just left n with hasValue and a weight that
\* reaches the threshold, while a goroutine of knownSelectWeight waits for n
Deserving(n) ==
    /\ n \in demote
    /\ last.op \in {"unregisterPeer", "stop"}
    /\ sfHasValue \in state[n]
    /\ calculateNode(Machine, n, FALSE, FALSE, MaxDuration).wt >= nodeWeightThreshold

\* C34: the goroutine spawned by knownSelectWeight does not take hasValue from
\* a node to which unregisterPeer or stop() has given it in the meantime for a
\* weight of nodeWeightThreshold or more
DemotionSparesDeserving ==
    [][\A n \in Nodes : (Deserving(n) /\ last'.op = "demote" /\ n \notin demote')
                        => sfHasValue \in state'[n]]_vars


\* ---- C35: the persistent clock ----

\* the clock on the persistent scale
PersistentNow == now + clockOffset

\* no write of the clock stores less than the database held before
ClockNeverBackwards ==
    [][dbClock' # dbClock
       => dbClock'[1] >= (IF dbClock = <<>> THEN 0 ELSE dbClock[1])]_vars

\* start() takes the persistent scale up where the last write left it, and the
\* wait it restores is what is left of waitUntil on that scale
SameScaleAfterStart ==
    [][last'.op = "start"
       => /\ now' + clockOffset' = (IF dbClock = <<>> THEN 0 ELSE dbClock[1])
          /\ \A n \in Nodes :
               (sfHasValue \in state[n] /\ hist[n] # <<>>)
               => IF hist[n][1].waitUntil > now' + clockOffset'
                  THEN /\ sfRedialWait \in state'[n]
                       /\ timer'[n][sfRedialWait] - now' = hist[n][1].waitUntil - (now' + clockOffset')
                  ELSE sfRedialWait \notin state'[n]]_vars

\* C35: the persistent clock never runs backwards, whatever the monotonic clock
\* reads after a restart: each value persistClock writes is at least the value
\* in the database before; and waitUntil, written on the persistent scale in
\* one run, is compared with the clock on the same scale at the next start
PersistentClockMonotone ==
    /\ ClockNeverBackwards
    /\ SameScaleAfterStart
    /\ [][(phase = "running" /\ phase' \in {"running", "closed"}) => now' + clockOffset' >= PersistentNow]_vars

\* a second run whose monotonic clock started below that of the first run has
\* written the clock, and a restored node waits on
ClockWrittenAfterReboot ==
    /\ runs > 0
    /\ clockOffset > 0
    /\ last.op \in {"stop", "persistTask"}
    /\ dbClock # <<>> /\ dbClock[1] > now
    /\ \E n \in Nodes : hist[n] # <<>> /\ hist[n][1].waitUntil > now


\* ---- C36: the range of the redial wait ----

\* the stored waitFactor of every node fits its uint64 encoding
WaitFactorEncodable ==
    \A n \in Nodes : hist[n] # <<>> => FitsUint64(FloorScaled(FromInt(hist[n][1].waitFactor), 8))

\* C36: however many dials fail in a row, minRedialWait x waitFactor stays in
\* the range of a duration and waitFactor x 256 in the range of a uint64, and
\* redialWait is set with a timeout above zero
RedialWaitInRange ==
    /\ [][\A n \in Nodes :
            FailedDial(n)
            => /\ hist'[n] # <<>>
               /\ minRedialWait * hist'[n][1].waitFactor <= MaxDuration
               /\ sfRedialWait \in state'[n]
               /\ timer'[n][sfRedialWait] > now]_vars
    /\ []WaitFactorEncodable

====
